---- MODULE Spec2Model ----
(***************************************************************************)
(* End-to-end host function invocation of soroban-env-host                 *)
(* (src/soroban-env-host/src/e2e_invoke.rs): the enforcing pipeline        *)
(* invoke_host_function, the recording pipeline                            *)
(* invoke_host_function_in_recording_mode and the change-set builder       *)
(* get_ledger_changes, as a state machine whose actions are the steps of   *)
(* the two pipelines.                                                      *)
(***************************************************************************)
EXTENDS Integers, Sequences, FiniteSets, TLC

(***************************************************************************)
(* Bounds of the model.                                                    *)
(***************************************************************************)
\* Number of ledger keys of the universe.
NKeys == 3
\* Largest number of keys that have a ledger entry or a footprint slot.
MaxFootprint == 2
\* Ledger sequence number of the invocation (LedgerInfo.sequence_number).
SequenceNumber == 2
\* LedgerInfo.min_persistent_entry_ttl and min_temp_entry_ttl.
MinPersistentTtl == 2
MinTempTtl == 1
\* Largest content length of a ledger entry written by a contract.
MaxVal == 2
\* Largest number of storage entries one invocation changes.
MaxWrites == 1
\* Largest of the small sizes passed for the XDR size of an entry.
MaxXdrSize == 3
\* Largest footprint of the calls that vary the host session.
SessionFootprint == 0
\* Largest size for rent and longest list of changes passed to
\* extract_rent_changes.
MaxRentSize == 2
MaxChanges == 2
\* Longest list of keys passed to the simulation of an operation, number of
\* keys they are drawn from, and largest of the small values passed for
\* extend_to.
MaxKeyList == 2
\* Largest value of a resource in the calls of the fee computation that are
\* not taken from the tests.
MaxResource == 1
\* Largest state size in the calls of the rent write fee that are not taken
\* from the tests.
MaxStateSize == 4
SimulationNKeys == 4
\* Largest number of recorded authorization payloads, and of authorization
\* entries a caller supplies.
MaxAuth == 2
MaxExtendTo == 2

\* u32::MAX, held at the largest integer the model checker represents.
U32_MAX == 2147483647

(***************************************************************************)
(* Option values: None is the empty sequence and Some(x) is <<x>>.         *)
(***************************************************************************)
None == <<>>
Some(x) == <<x>>
IsSome(o) == o # <<>>
Unwrap(o) == o[1]

Max(a, b) == IF a >= b THEN a ELSE b
Min(a, b) == IF a <= b THEN a ELSE b
\* u32::saturating_add
saturating_add_u32(a, b) == IF a > U32_MAX - b THEN U32_MAX ELSE a + b

(***************************************************************************)
(* Ledger keys.  A key is an integer and integer order stands for the      *)
(* derived Ord of LedgerKey: an account key, a temporary contract data     *)
(* key, a contract code key, then persistent contract data keys.           *)
(***************************************************************************)
LedgerKeys == 1..NKeys

\* LedgerKey::discriminant
KeyType(k) ==
    CASE k = 1 -> "Account"
      [] k = 2 -> "ContractData"
      [] k = 3 -> "ContractCode"
      [] OTHER -> "ContractData"

\* ledger_info::get_key_durability
get_key_durability(k) ==
    CASE k = 1 -> None
      [] k = 2 -> Some("Temporary")
      [] k = 3 -> Some("Persistent")
      [] OTHER -> Some("Persistent")

\* storage::is_persistent_key
is_persistent_key(k) == get_key_durability(k) = Some("Persistent")

\* LedgerInfo::min_live_until_ledger_checked
min_live_until_ledger_checked(durability) ==
    IF durability = "Persistent"
    THEN SequenceNumber + MinPersistentTtl - 1
    ELSE SequenceNumber + MinTempTtl - 1

min_live_until_ledger == min_live_until_ledger_checked("Persistent")

\* Live-until ledgers a ledger state holds before the invocation.
OldLiveUntils == (SequenceNumber - 1)..(SequenceNumber + 1)

\* Live-until ledgers an invocation leaves on an entry it wrote or extended.
NewLiveUntils == SequenceNumber..(min_live_until_ledger + 1)

(***************************************************************************)
(* XDR.  A key is encoded as a tag byte and its identifier, an entry as    *)
(* its key followed by val content bytes, a TTL entry as the key hash and  *)
(* the live-until ledger.                                                  *)
(***************************************************************************)
TypeTag(t) ==
    CASE t = "Account" -> 0
      [] t = "ContractData" -> 6
      [] OTHER -> 7

WriteXdrKey(k) == <<TypeTag(KeyType(k)), k>>
ReadXdrKey(b) == b[2]

LedgerEntry(k, v) == [key |-> k, val |-> v]
WriteXdrEntry(le) == WriteXdrKey(le.key) \o [i \in 1..le.val |-> 0]
ReadXdrEntry(b) == [key |-> b[2], val |-> Len(b) - 2]

\* crypto::sha256_hash_from_bytes
sha256_hash_from_bytes(b) == <<32>> \o b

TtlEntry(k, l) == [key_hash |-> sha256_hash_from_bytes(WriteXdrKey(k)), live_until_ledger_seq |-> l]
WriteXdrTtl(t) == <<t.live_until_ledger_seq>> \o t.key_hash
ReadXdrTtl(b) == [key_hash |-> SubSeq(b, 2, Len(b)), live_until_ledger_seq |-> b[1]]

\* ledger_entry_to_ledger_key
ledger_entry_to_ledger_key(le) == le.key

\* vm::wasm_module_memory_cost
wasm_module_memory_cost(le) == 10 * le.val

\* Variant of entry_size_for_rent that adds the module memory cost with a
\* wrapping addition.
entry_size_for_rent_wrapping(le, entry_xdr_size) ==
    IF KeyType(le.key) = "ContractCode"
    THEN LET cost == Min(wasm_module_memory_cost(le), U32_MAX)
         IN IF cost > U32_MAX - entry_xdr_size
            THEN cost - (U32_MAX - entry_xdr_size) - 1
            ELSE entry_xdr_size + cost
    ELSE entry_xdr_size

\* entry_size_for_rent
entry_size_for_rent(le, entry_xdr_size) ==
    IF KeyType(le.key) = "ContractCode"
    THEN saturating_add_u32(entry_xdr_size, Min(wasm_module_memory_cost(le), U32_MAX))
    ELSE entry_xdr_size

(***************************************************************************)
(* Sorted iteration of MeteredOrdMap.                                      *)
(***************************************************************************)
\* Variant of SortedSeq that yields the keys from the largest down.
RECURSIVE DescendingSeq(_)
DescendingSeq(S) ==
    IF S = {} THEN <<>>
    ELSE LET m == CHOOSE x \in S : \A y \in S : x >= y
         IN <<m>> \o DescendingSeq(S \ {m})

RECURSIVE SortedSeq(_)
SortedSeq(S) ==
    IF S = {} THEN <<>>
    ELSE LET m == CHOOSE x \in S : \A y \in S : x <= y
         IN <<m>> \o SortedSeq(S \ {m})

SeqToSet(s) == {s[i] : i \in 1..Len(s)}

RECURSIVE SumSeq(_)
SumSeq(s) == IF s = <<>> THEN 0 ELSE s[1] + SumSeq(Tail(s))

(***************************************************************************)
(* Results and errors.                                                     *)
(***************************************************************************)
Pending == [tag |-> "Pending", val |-> <<>>, err |-> ""]
Ok(v) == [tag |-> "Ok", val |-> v, err |-> ""]
Err(e) == [tag |-> "Err", val |-> <<>>, err |-> e]

BudgetExceeded == "Budget/ExceededLimit"
StorageInternal == "Storage/InternalError"

\* Errors a contract or its caller causes; they are delivered inside the
\* invoke result.
UserErrors == {"Auth/InvalidAction", "Storage/ExceededLimit", "Storage/MissingValue", "WasmVm/InvalidAction"}

\* Return values of a host function and their XDR.
WriteXdrScVal(v) == IF v = "Void" THEN <<0, 0, 0, 1>> ELSE <<0, 0, 0, 3, 0, 0, 0, 9>>

\* Host events: a contract event, a contract event of a failed call, a
\* diagnostic event.
HostEvent(failed, type) == [failed_call |-> failed, type_ |-> type]
EventLogs ==
    { <<>>,
      <<HostEvent(FALSE, "Diagnostic"), HostEvent(TRUE, "Contract"), HostEvent(FALSE, "Contract")>> }
WriteXdrEvent(e) == IF e.type_ = "Contract" THEN <<1, 0>> ELSE <<2, 0, 0>>

VARIABLES
    recording_mode_feature,     \* cfg(any(test, feature = "recording_mode"))
    mode,                       \* "enforcing" or "recording"
    pc,                         \* position in the pipeline
    ledger_snapshot,            \* ledger state before the invocation
    resources,                  \* SorobanResources: footprint and byte counts
    restored_rw_entry_indices,
    encoded_ledger_entries,
    encoded_ttl_entries,
    restored_keys,
    footprint,                  \* storage.footprint.0
    storage_map,                \* storage.map
    init_storage_map,
    init_ttl_map,
    invoke_result,
    events,
    encoded_invoke_result,
    ledger_changes,
    encoded_contract_events,
    contract_events,
    contract_events_and_return_value_size,
    ret,                        \* what the pipeline returned
    budget_exceeded_at,         \* step whose budget charge failed
    recording_result,           \* what the recording run did and returned
    enable_diagnostics,         \* argument of both pipelines
    trace_hook,                 \* TRUE when trace_hook is Some
    module_cache,               \* TRUE when module_cache is Some
    auth_mode,                  \* RecordingInvocationAuthMode
    diagnostic_events,          \* the caller's vector of diagnostic events
    setter_calls,               \* calls made to each setter of the host
    shadow_budget_exceeded,     \* a charge under the shadow budget failed
    call,                       \* a function of the library and its arguments
    returned                    \* what that function returned

vars == <<recording_mode_feature, mode, pc, ledger_snapshot, resources,
          restored_rw_entry_indices, encoded_ledger_entries,
          encoded_ttl_entries, restored_keys, footprint, storage_map,
          init_storage_map, init_ttl_map, invoke_result, events,
          encoded_invoke_result, ledger_changes, encoded_contract_events,
          contract_events, contract_events_and_return_value_size,
          ret, budget_exceeded_at, recording_result,
          enable_diagnostics, trace_hook, module_cache, auth_mode,
          diagnostic_events, setter_calls, shadow_budget_exceeded,
          call, returned>>

(***************************************************************************)
(* Inputs.                                                                 *)
(***************************************************************************)
EntryWithLiveUntil(le, live_until) == [entry |-> le, live_until |-> live_until]

\* What a ledger state can hold for key k: nothing, or an entry with or
\* without a live-until ledger.
SnapshotOptions(k) ==
    {None}
    \cup {Some(EntryWithLiveUntil(LedgerEntry(k, 1), None))}
    \cup {Some(EntryWithLiveUntil(LedgerEntry(k, 1), Some(l))) :
            l \in IF IsSome(get_key_durability(k)) THEN OldLiveUntils ELSE {SequenceNumber}}

\* The ledger states that hold entries for keys of the sequence keys only.
RECURSIVE SnapshotsOver(_)
SnapshotsOver(keys) ==
    IF keys = <<>> THEN {[k \in LedgerKeys |-> None]}
    ELSE {[s EXCEPT ![Head(keys)] = o] :
            s \in SnapshotsOver(Tail(keys)), o \in SnapshotOptions(Head(keys))}

AccessChoices == {"none", "ro", "rw", "both"}

\* The entries of a ledger state in key order, encoded, with their TTL slots.
EncodedEntriesOf(snap, keys) ==
    [i \in 1..Len(keys) |-> WriteXdrEntry(Unwrap(snap[keys[i]]).entry)]
EncodedTtlsOf(snap, keys) ==
    [i \in 1..Len(keys) |->
        LET e == Unwrap(snap[keys[i]])
        IN IF IsSome(e.live_until)
           THEN WriteXdrTtl(TtlEntry(keys[i], Unwrap(e.live_until)))
           ELSE <<>>]

\* Index lists an embedder passes for a read-write footprint of n keys: no
\* index, one index (valid or one past the end), or the first two slots.
RestoredIndexChoices(n) ==
    {<<>>} \cup {<<i>> : i \in 0..n} \cup (IF n >= 2 THEN {<<0, 1>>} ELSE {})

EmptyResources == [footprint |-> [read_only |-> <<>>, read_write |-> <<>>],
                   instructions |-> 0, disk_read_bytes |-> 0, write_bytes |-> 0]

\* No recording run came before this run.
NoRecording == [vm |-> None, output |-> None]

\* The setters of the host session.
Setters ==
    {"set_source_account", "set_ledger_info", "set_authorization_entries",
     "set_base_prng_seed", "set_diagnostic_level", "set_module_cache", "set_trace_hook"}

\* What the pipelines do with a host besides setting it up: the invocation,
\* the reads of the recording run and Host::try_finish.  used_after_finish
\* counts the calls made on a host that try_finish has consumed.
HostCalls ==
    Setters \cup {"invoke_function", "get_recorded_auth_payloads", "with_mut_storage",
                  "try_finish", "used_after_finish"}

NoSetterCalls == [s \in HostCalls |-> 0]

\* No function of the library is being called on its own.
NoCall == [fn |-> "none"]

InitCommon ==
    /\ pc = "start"
    /\ restored_keys = None
    /\ footprint = <<>>
    /\ storage_map = <<>>
    /\ init_storage_map = <<>>
    /\ init_ttl_map = <<>>
    /\ invoke_result = Pending
    /\ events = <<>>
    /\ encoded_invoke_result = Pending
    /\ ledger_changes = <<>>
    /\ encoded_contract_events = <<>>
    /\ contract_events = <<>>
    /\ contract_events_and_return_value_size = 0
    /\ ret = Pending
    /\ budget_exceeded_at = "none"
    /\ recording_result = NoRecording
    /\ setter_calls = NoSetterCalls
    /\ shadow_budget_exceeded = FALSE

\* A call without diagnostics, trace hook or module cache, and with an
\* empty vector for the diagnostic events.
DefaultSession ==
    /\ enable_diagnostics = FALSE
    /\ trace_hook = FALSE
    /\ module_cache = FALSE
    /\ diagnostic_events = <<>>

\* The arguments of invoke_host_function over footprints of at most
\* maxFootprint keys: resources, restored indices, ledger entries and TTL
\* entries.
EnforcingInputs(maxFootprint) ==
    /\ \E P \in SUBSET LedgerKeys :
        /\ Cardinality(P) <= maxFootprint
        /\ \E acc \in [P -> AccessChoices] :
           \E snap \in SnapshotsOver(SortedSeq(P)) :
            /\ \A k \in P : acc[k] # "none" \/ snap[k] # None
            /\ ledger_snapshot = snap
            /\ LET ro == SortedSeq({k \in P : acc[k] \in {"ro", "both"}})
                   rw == SortedSeq({k \in P : acc[k] \in {"rw", "both"}})
                   present == SortedSeq({k \in P : IsSome(snap[k])})
               IN /\ resources = [EmptyResources EXCEPT !.footprint = [read_only |-> ro, read_write |-> rw]]
                  /\ encoded_ledger_entries = EncodedEntriesOf(snap, present)
                  /\ \E drop \in BOOLEAN :
                        encoded_ttl_entries =
                            IF drop /\ present # <<>>
                            THEN Tail(EncodedTtlsOf(snap, present))
                            ELSE EncodedTtlsOf(snap, present)
                  /\ restored_rw_entry_indices \in RestoredIndexChoices(Len(rw))

InitEnforcing ==
    /\ mode = "enforcing"
    /\ recording_mode_feature \in BOOLEAN
    /\ EnforcingInputs(MaxFootprint)
    /\ auth_mode = "Enforcing"
    /\ DefaultSession
    /\ InitCommon
    /\ call = NoCall
    /\ returned = None

(***************************************************************************)
(* MeteredOrdMap: a map is a function on its key set; insert replaces the  *)
(* value of a key that is already present.                                 *)
(***************************************************************************)
EmptyMap == <<>>
MapInsert(m, k, v) == [x \in (DOMAIN m) \cup {k} |-> IF x = k THEN v ELSE m[x]]
MapGet(m, k) == IF k \in DOMAIN m THEN Some(m[k]) ELSE None

RECURSIVE InsertAll(_, _, _)
InsertAll(m, keys, v) ==
    IF keys = <<>> THEN m
    ELSE InsertAll(MapInsert(m, Head(keys), v), Tail(keys), v)

\* build_restored_key_set: None for an empty index list, an error for an
\* index outside the read-write footprint, else the set of indexed keys.
build_restored_key_set(res, indices) ==
    IF indices = <<>> THEN [err |-> "", keys |-> None]
    ELSE IF \E i \in 1..Len(indices) : indices[i] + 1 > Len(res.footprint.read_write)
    THEN [err |-> StorageInternal, keys |-> None]
    ELSE [err |-> "",
          keys |-> Some({res.footprint.read_write[indices[i] + 1] : i \in 1..Len(indices)})]

\* Variant of build_storage_footprint_from_xdr that inserts the read-only
\* keys first.
build_storage_footprint_read_only_first(fp) ==
    InsertAll(InsertAll(EmptyMap, fp.read_only, "ReadOnly"), fp.read_write, "ReadWrite")

\* build_storage_footprint_from_xdr: the read-write keys are inserted first,
\* then the read-only keys.
build_storage_footprint_from_xdr(fp) ==
    InsertAll(InsertAll(EmptyMap, fp.read_write, "ReadWrite"), fp.read_only, "ReadOnly")

\* build_storage_map_from_xdr_ledger_entries, the loop over the zipped
\* entry and TTL buffers from position i on.
RECURSIVE BuildStorageMapLoop(_, _, _, _, _, _, _, _)
BuildStorageMapLoop(feature, fp, entries, ttls, is_recording_mode, i, sm, tm) ==
    IF i > Len(entries)
    THEN [err |-> "", storage_map |-> sm, ttl_map |-> tm]
    ELSE
      LET le == ReadXdrEntry(entries[i])
          key == ledger_entry_to_ledger_key(le)
          ttl_buf == ttls[i]
          ttl_entry == ReadXdrTtl(ttl_buf)
          expired == ttl_buf # <<>> /\ ttl_entry.live_until_ledger_seq < SequenceNumber
          live_until_ledger == IF ttl_buf # <<>> THEN Some(ttl_entry.live_until_ledger_seq) ELSE None
          new_tm == IF ttl_buf # <<>> THEN MapInsert(tm, key, ttl_entry) ELSE tm
          failed == [err |-> StorageInternal, storage_map |-> sm, ttl_map |-> tm]
      IN  IF expired /\ feature /\ ~is_recording_mode
          THEN failed
          ELSE IF expired /\ feature /\ ~is_persistent_key(key)
          THEN BuildStorageMapLoop(feature, fp, entries, ttls, is_recording_mode, i + 1, sm, tm)
          ELSE IF ttl_buf = <<>> /\ KeyType(le.key) \in {"ContractData", "ContractCode"}
          THEN failed
          ELSE IF key \notin DOMAIN fp
          THEN failed
          ELSE BuildStorageMapLoop(feature, fp, entries, ttls, is_recording_mode, i + 1,
                    MapInsert(sm, key, Some(EntryWithLiveUntil(le, live_until_ledger))), new_tm)

\* Variant of build_storage_map_from_xdr_ledger_entries without the loop
\* that adds the footprint keys that have no entry.
build_storage_map_without_fill(feature, fp, entries, ttls, is_recording_mode) ==
    IF Len(entries) # Len(ttls)
    THEN [err |-> StorageInternal, storage_map |-> EmptyMap, ttl_map |-> EmptyMap]
    ELSE BuildStorageMapLoop(feature, fp, entries, ttls, is_recording_mode, 1, EmptyMap, EmptyMap)

\* Variant of build_storage_map_from_xdr_ledger_entries that stores every
\* entry without its live-until ledger.
build_storage_map_without_live_until(feature, fp, entries, ttls, is_recording_mode) ==
    IF Len(entries) # Len(ttls)
    THEN [err |-> StorageInternal, storage_map |-> EmptyMap, ttl_map |-> EmptyMap]
    ELSE LET r == BuildStorageMapLoop(feature, fp, entries, ttls, is_recording_mode, 1, EmptyMap, EmptyMap)
         IN IF r.err # "" THEN r
            ELSE [r EXCEPT !.storage_map =
                    [k \in (DOMAIN r.storage_map) \cup (DOMAIN fp) |->
                        IF k \in DOMAIN r.storage_map
                        THEN Some(EntryWithLiveUntil(Unwrap(r.storage_map[k]).entry, None))
                        ELSE None]]

build_storage_map_from_xdr_ledger_entries(feature, fp, entries, ttls, is_recording_mode) ==
    IF Len(entries) # Len(ttls)
    THEN [err |-> StorageInternal, storage_map |-> EmptyMap, ttl_map |-> EmptyMap]
    ELSE LET r == BuildStorageMapLoop(feature, fp, entries, ttls, is_recording_mode, 1, EmptyMap, EmptyMap)
         IN IF r.err # "" THEN r
            ELSE [r EXCEPT !.storage_map =
                    [k \in (DOMAIN r.storage_map) \cup (DOMAIN fp) |->
                        IF k \in DOMAIN r.storage_map THEN r.storage_map[k] ELSE None]]

\* StorageMapSnapshotSource::get
StorageMapSnapshotSource_get(map, key) ==
    IF key \in DOMAIN map /\ IsSome(map[key]) THEN map[key] ELSE None

(***************************************************************************)
(* The change-set builder.                                                 *)
(***************************************************************************)
LedgerEntryLiveUntilChange(key_hash, durability, entry_type, old, new) ==
    [key_hash |-> key_hash, durability |-> durability, entry_type |-> entry_type,
     old_live_until_ledger |-> old, new_live_until_ledger |-> new]

\* LedgerEntryChange::default
LedgerEntryChangeDefault ==
    [read_only |-> FALSE, encoded_key |-> <<>>, old_entry_size_bytes_for_rent |-> 0,
     encoded_new_value |-> None, new_entry_size_bytes_for_rent |-> 0, ttl_change |-> None]

\* True when restored_keys is Some set that contains key.
RestoredContains(restored, key) == IsSome(restored) /\ key \in Unwrap(restored)

\* Variant of NewValueOf that encodes the final entry whatever the access
\* mode of the key is.
NewValueOfAnyAccess(access, final) ==
    IF IsSome(final) THEN Some(WriteXdrEntry(Unwrap(final).entry)) ELSE None

\* get_ledger_changes, the ReadWrite arm of the access match: the encoded
\* final entry of a read-write key that still has one.
NewValueOf(access, final) ==
    IF access = Some("ReadWrite") /\ IsSome(final)
    THEN Some(WriteXdrEntry(Unwrap(final).entry))
    ELSE None

\* get_ledger_changes, the body of the loop for one (key, entry) pair of
\* storage.map: the change record, or err when an invariant fails.
LedgerChangeOf(feature, key, final, old, init_ttl_entries, footprint_map, min_live_until, restored, current_ledger_seq) ==
    LET durability == get_key_durability(key)
        encoded_key == WriteXdrKey(key)
        key_hash == IF key \in DOMAIN init_ttl_entries
                    THEN init_ttl_entries[key].key_hash
                    ELSE sha256_hash_from_bytes(encoded_key)
        has_ttl == IsSome(durability)
        old_size == IF IsSome(old)
                    THEN entry_size_for_rent(Unwrap(old).entry, Len(WriteXdrEntry(Unwrap(old).entry)))
                    ELSE 0
        old_missing == IsSome(old) /\ has_ttl /\ ~IsSome(Unwrap(old).live_until)
        old_live == IF IsSome(old) /\ has_ttl /\ ~old_missing
                    THEN Unwrap(Unwrap(old).live_until) ELSE 0
        expired_old == feature /\ IsSome(old) /\ has_ttl /\ old_live < current_ledger_seq
        old_size1 == IF expired_old THEN 0 ELSE old_size
        old_live1 == IF expired_old THEN 0 ELSE old_live
        new_missing == IsSome(final) /\ has_ttl /\ ~IsSome(Unwrap(final).live_until)
        new_live == IF IsSome(final) /\ has_ttl /\ ~new_missing
                    THEN Max(Unwrap(Unwrap(final).live_until), old_live1) ELSE 0
        access == MapGet(footprint_map, key)
        written == access = Some("ReadWrite") /\ IsSome(final)
        entry_buf == WriteXdrEntry(Unwrap(final).entry)
        is_restored == written /\ RestoredContains(restored, key)
        old_size2 == IF is_restored THEN 0 ELSE old_size1
        old_live2 == IF is_restored THEN 0 ELSE old_live1
        new_live2 == IF is_restored THEN Max(new_live, min_live_until) ELSE new_live
    IN  [err |-> IF old_missing \/ new_missing \/ access = None THEN StorageInternal ELSE "",
         change |->
            [read_only |-> access = Some("ReadOnly"),
             encoded_key |-> encoded_key,
             old_entry_size_bytes_for_rent |-> old_size2,
             encoded_new_value |-> NewValueOf(access, final),
             new_entry_size_bytes_for_rent |->
                IF written THEN entry_size_for_rent(Unwrap(final).entry, Len(entry_buf)) ELSE 0,
             ttl_change |->
                IF has_ttl
                THEN Some(LedgerEntryLiveUntilChange(key_hash, Unwrap(durability), KeyType(key),
                                                     old_live2, new_live2))
                ELSE None]]

\* Variant of get_ledger_changes that keeps the size and the live-until
\* ledger of an old entry that has expired.
get_ledger_changes_keeps_expired_old(feature, map, footprint_map, snapshot, init_ttl_entries, min_live_until, restored, current_ledger_seq) ==
    LET keys == SortedSeq(DOMAIN map)
        per == [i \in 1..Len(keys) |->
                    LedgerChangeOf(FALSE, keys[i], map[keys[i]], snapshot[keys[i]],
                                   init_ttl_entries, footprint_map, min_live_until,
                                   restored, current_ledger_seq)]
    IN  IF \E i \in 1..Len(keys) : per[i].err # ""
        THEN [err |-> StorageInternal, changes |-> <<>>]
        ELSE [err |-> "", changes |-> [i \in 1..Len(keys) |-> per[i].change]]

\* get_ledger_changes: one record per key of storage.map, in key order.
\* snapshot maps every key to what init_storage_snapshot.get returns.
get_ledger_changes(feature, map, footprint_map, snapshot, init_ttl_entries, min_live_until, restored, current_ledger_seq) ==
    LET keys == SortedSeq(DOMAIN map)
        per == [i \in 1..Len(keys) |->
                    LedgerChangeOf(feature, keys[i], map[keys[i]], snapshot[keys[i]],
                                   init_ttl_entries, footprint_map, min_live_until,
                                   restored, current_ledger_seq)]
    IN  IF \E i \in 1..Len(keys) : per[i].err # ""
        THEN [err |-> StorageInternal, changes |-> <<>>]
        ELSE [err |-> "", changes |-> [i \in 1..Len(keys) |-> per[i].change]]

\* encode_contract_events: the events that are neither of a failed call nor
\* diagnostic, encoded.
RECURSIVE FilterContractEvents(_)
FilterContractEvents(evs) ==
    IF evs = <<>> THEN <<>>
    ELSE IF ~Head(evs).failed_call /\ Head(evs).type_ # "Diagnostic"
         THEN <<Head(evs)>> \o FilterContractEvents(Tail(evs))
         ELSE FilterContractEvents(Tail(evs))

encode_contract_events(evs) ==
    LET ce == FilterContractEvents(evs)
    IN [i \in 1..Len(ce) |-> WriteXdrEvent(ce[i])]

(***************************************************************************)
(* The pipelines.  A step that charges the budget either succeeds or finds *)
(* the budget exhausted; a step that fails ends the pipeline with an       *)
(* error.                                                                  *)
(***************************************************************************)
recVars == <<contract_events, contract_events_and_return_value_size>>
sessionInputs == <<enable_diagnostics, trace_hook, module_cache, auth_mode>>
fnVars == <<call, returned>>
sessionVars == <<diagnostic_events, setter_calls, shadow_budget_exceeded>>
callVars == <<recording_mode_feature, mode, ledger_snapshot,
              restored_rw_entry_indices, encoded_ledger_entries, encoded_ttl_entries,
              sessionInputs, fnVars>>
inputVars == <<callVars, recording_result>>
hostVars == <<restored_keys, footprint, storage_map, init_storage_map, init_ttl_map>>
outputVars == <<invoke_result, events, encoded_invoke_result, ledger_changes,
                encoded_contract_events, recVars>>

\* The pipeline returns Err(e) from the current step.
Fail(e) ==
    /\ pc' = "done"
    /\ ret' = Err(e)
    /\ UNCHANGED <<inputVars, resources, hostVars, outputVars, budget_exceeded_at>>

\* A budget charge of the current step fails.
BudgetFail(step) ==
    /\ pc' = "done"
    /\ ret' = Err(BudgetExceeded)
    /\ budget_exceeded_at' = step
    /\ UNCHANGED <<inputVars, resources, hostVars, outputVars>>

\* invoke_host_function: decode the resources and build the restored key set.
BuildRestoredKeySet ==
    /\ mode = "enforcing"
    /\ pc = "start"
    /\ \/ BudgetFail("decode")
       \/ LET r == build_restored_key_set(resources, restored_rw_entry_indices)
          IN IF r.err # ""
             THEN Fail(r.err)
             ELSE /\ restored_keys' = r.keys
                  /\ pc' = "footprint"
                  /\ UNCHANGED <<inputVars, resources, footprint, storage_map,
                                 init_storage_map, init_ttl_map, outputVars, ret,
                                 budget_exceeded_at>>
    /\ UNCHANGED sessionVars

\* invoke_host_function: build the storage footprint.
BuildStorageFootprint ==
    /\ mode = "enforcing"
    /\ pc = "footprint"
    /\ \/ BudgetFail("footprint")
       \/ /\ footprint' = build_storage_footprint_from_xdr(resources.footprint)
          /\ pc' = "storage_map"
          /\ UNCHANGED <<inputVars, resources, restored_keys, storage_map,
                         init_storage_map, init_ttl_map, outputVars, ret,
                         budget_exceeded_at>>
    /\ UNCHANGED sessionVars

\* invoke_host_function: build the storage map and the initial TTL map.
BuildStorageMap ==
    /\ mode = "enforcing"
    /\ pc = "storage_map"
    /\ \/ BudgetFail("storage_map")
       \/ LET r == build_storage_map_from_xdr_ledger_entries(
                        recording_mode_feature, footprint, encoded_ledger_entries,
                        encoded_ttl_entries, FALSE)
          IN IF r.err # ""
             THEN Fail(r.err)
             ELSE /\ storage_map' = r.storage_map
                  /\ init_ttl_map' = r.ttl_map
                  /\ pc' = "host_setup"
                  /\ UNCHANGED <<inputVars, resources, restored_keys, footprint,
                                 init_storage_map, outputVars, ret, budget_exceeded_at>>
    /\ UNCHANGED sessionVars

\* The calls of a host after the setters of the sequence called were called
\* in turn.
RECURSIVE CallSetters(_, _)
CallSetters(calls, called) ==
    IF called = <<>> THEN calls
    ELSE CallSetters([calls EXCEPT ![Head(called)] = @ + 1,
                                   !["used_after_finish"] =
                                        IF calls["try_finish"] > 0 THEN @ + 1 ELSE @],
                     Tail(called))

\* Variant of EnforcingSetup that sets the ledger info again after the
\* diagnostic level.
EnforcingSetupSetsLedgerInfoAgain(hook, diagnostics, cache) ==
    (IF hook THEN <<"set_trace_hook">> ELSE <<>>)
    \o <<"set_source_account", "set_ledger_info", "set_authorization_entries",
         "set_base_prng_seed">>
    \o (IF diagnostics THEN <<"set_diagnostic_level", "set_ledger_info">> ELSE <<>>)
    \o (IF cache THEN <<"set_module_cache">> ELSE <<>>)

\* invoke_host_function: the setters called on the new host before the
\* invocation, in the order of the calls.
EnforcingSetup(hook, diagnostics, cache) ==
    (IF hook THEN <<"set_trace_hook">> ELSE <<>>)
    \o <<"set_source_account", "set_ledger_info", "set_authorization_entries",
         "set_base_prng_seed">>
    \o (IF diagnostics THEN <<"set_diagnostic_level">> ELSE <<>>)
    \o (IF cache THEN <<"set_module_cache">> ELSE <<>>)

\* invoke_host_function_in_recording_mode: the setters called on the new
\* host before the invocation.
RecordingSetup(auth, diagnostics) ==
    <<"set_source_account", "set_ledger_info", "set_base_prng_seed">>
    \o (IF auth = "Enforcing" THEN <<"set_authorization_entries">> ELSE <<>>)
    \o (IF diagnostics THEN <<"set_diagnostic_level">> ELSE <<>>)

\* extract_diagnostic_events
extract_diagnostic_events(evs, diagnostics) ==
    diagnostics \o [i \in 1..Len(evs) |->
                        [in_successful_contract_call |-> ~evs[i].failed_call,
                         event |-> [type_ |-> evs[i].type_]]]

\* invoke_host_function: clone the storage map, create the host and set it up.
HostSetup ==
    /\ mode = "enforcing"
    /\ pc = "host_setup"
    /\ \/ /\ BudgetFail("host_setup")
          /\ UNCHANGED setter_calls
       \/ /\ init_storage_map' = storage_map
          /\ setter_calls' = CallSetters(NoSetterCalls,
                                EnforcingSetup(trace_hook, enable_diagnostics, module_cache))
          /\ pc' = "invoke"
          /\ UNCHANGED <<inputVars, resources, restored_keys, footprint, storage_map,
                         init_ttl_map, outputVars, ret, budget_exceeded_at>>
    /\ UNCHANGED <<diagnostic_events, shadow_budget_exceeded>>

\* What a host function can return together with the events it emitted.
VmOutputs ==
    { [val |-> "Void", events |-> <<>>],
      [val |-> "U32", events |-> <<HostEvent(FALSE, "Diagnostic"), HostEvent(TRUE, "Contract"),
                                   HostEvent(FALSE, "Contract")>>] }

\* Live-until slots of an entry a contract writes under key k.
WrittenLiveUntils(k) ==
    IF IsSome(get_key_durability(k)) THEN {Some(l) : l \in NewLiveUntils} ELSE {None}

\* What an invocation can leave in the storage map under key k that holds
\* cur: a read-write entry is kept, removed or written; a read-only entry is
\* kept or has its live-until ledger increased.
VmFinalEntries(k, cur, access) ==
    IF access = "ReadWrite"
    THEN {cur, None}
         \cup {Some(EntryWithLiveUntil(LedgerEntry(k, v), l)) :
                    v \in 1..MaxVal, l \in WrittenLiveUntils(k)}
    ELSE {cur}
         \cup (IF IsSome(cur) /\ IsSome(Unwrap(cur).live_until) /\ IsSome(get_key_durability(k))
               THEN {Some(EntryWithLiveUntil(Unwrap(cur).entry, Some(l))) :
                        l \in {x \in NewLiveUntils : x > Unwrap(Unwrap(cur).live_until)}}
               ELSE {})

\* Host::invoke_function on an enforcing storage.  A run that replays a
\* recorded invocation on the same ledger state does what the recorded
\* invocation did.
InvokeFunction ==
    /\ mode = "enforcing"
    /\ pc = "invoke"
    /\ pc' = "finish"
    /\ \/ /\ invoke_result' = Err(BudgetExceeded)
          /\ budget_exceeded_at' = "invoke"
          /\ \E ev \in EventLogs : events' = ev
          /\ UNCHANGED storage_map
       \/ /\ IsSome(recording_result.vm)
          /\ LET vm == Unwrap(recording_result.vm)
             IN /\ invoke_result' = vm.invoke_result
                /\ events' = vm.events
                /\ storage_map' = [k \in DOMAIN storage_map |->
                                        IF k \in DOMAIN vm.written THEN vm.written[k]
                                        ELSE storage_map[k]]
          /\ UNCHANGED budget_exceeded_at
       \/ /\ ~IsSome(recording_result.vm)
          /\ \E e \in UserErrors : invoke_result' = Err(e)
          /\ \E ev \in EventLogs : events' = ev
          /\ UNCHANGED <<storage_map, budget_exceeded_at>>
       \/ /\ ~IsSome(recording_result.vm)
          /\ \E out \in VmOutputs :
                /\ invoke_result' = Ok(out.val)
                /\ events' = out.events
          /\ \E W \in SUBSET (DOMAIN storage_map) :
                /\ Cardinality(W) <= MaxWrites
                /\ \E fin \in [W -> UNION {VmFinalEntries(k, storage_map[k], footprint[k]) : k \in W}] :
                    /\ \A k \in W : fin[k] \in VmFinalEntries(k, storage_map[k], footprint[k])
                    /\ storage_map' = [k \in DOMAIN storage_map |->
                                            IF k \in W THEN fin[k] ELSE storage_map[k]]
          /\ UNCHANGED budget_exceeded_at
    /\ UNCHANGED <<inputVars, resources, restored_keys, footprint, init_storage_map,
                   init_ttl_map, encoded_invoke_result, ledger_changes,
                   encoded_contract_events, recVars, ret>>
    /\ setter_calls' = CallSetters(setter_calls, <<"invoke_function">>)
    /\ UNCHANGED <<diagnostic_events, shadow_budget_exceeded>>

\* Variant of EnforcingFinish that clears the trace hook of the host after
\* the host was finished.
EnforcingFinishBeforeClearingHook(hook) ==
    <<"try_finish">> \o (IF hook THEN <<"set_trace_hook">> ELSE <<>>)

\* invoke_host_function: the calls on the host after the invocation.
EnforcingFinish(hook) ==
    (IF hook THEN <<"set_trace_hook">> ELSE <<>>) \o <<"try_finish">>

\* Variant of Finish that hands out the diagnostic events of a successful
\* invocation only.
FinishWithoutDiagnosticsOfFailure ==
    /\ mode = "enforcing"
    /\ pc = "finish"
    /\ setter_calls' = CallSetters(setter_calls, EnforcingFinish(trace_hook))
    /\ diagnostic_events' = IF enable_diagnostics /\ invoke_result.tag = "Ok"
                            THEN extract_diagnostic_events(events, diagnostic_events)
                            ELSE diagnostic_events
    /\ pc' = "encode_result"
    /\ UNCHANGED <<inputVars, resources, hostVars, outputVars, ret, budget_exceeded_at,
                   shadow_budget_exceeded>>

\* invoke_host_function: clear the trace hook, Host::try_finish and the
\* diagnostic events.
Finish ==
    /\ mode = "enforcing"
    /\ pc = "finish"
    /\ setter_calls' = CallSetters(setter_calls, EnforcingFinish(trace_hook))
    /\ diagnostic_events' = IF enable_diagnostics
                            THEN extract_diagnostic_events(events, diagnostic_events)
                            ELSE diagnostic_events
    /\ pc' = "encode_result"
    /\ UNCHANGED <<inputVars, resources, hostVars, outputVars, ret, budget_exceeded_at,
                   shadow_budget_exceeded>>

\* Variant of EncodeInvokeResult that goes on to build the changes of a
\* failed invocation.
EncodeInvokeResultKeepsChanges ==
    /\ mode = "enforcing"
    /\ pc = "encode_result"
    /\ encoded_invoke_result' =
            IF invoke_result.tag = "Ok" THEN Ok(WriteXdrScVal(invoke_result.val))
            ELSE invoke_result
    /\ pc' = "changes"
    /\ UNCHANGED <<inputVars, resources, hostVars, invoke_result, events, recVars,
                   ret, budget_exceeded_at, ledger_changes, encoded_contract_events>>
    /\ UNCHANGED sessionVars

\* invoke_host_function: encode the return value; a failed invocation, or a
\* failed encoding, returns the record with no changes and no events.
EncodeInvokeResult ==
    /\ mode = "enforcing"
    /\ pc = "encode_result"
    /\ \/ /\ invoke_result.tag = "Ok"
          /\ encoded_invoke_result' = Ok(WriteXdrScVal(invoke_result.val))
          /\ pc' = "changes"
          /\ UNCHANGED <<ret, budget_exceeded_at, ledger_changes, encoded_contract_events>>
       \/ /\ invoke_result.tag = "Ok"
          /\ encoded_invoke_result' = Err(BudgetExceeded)
          /\ budget_exceeded_at' = "encode_result"
          /\ ledger_changes' = <<>>
          /\ encoded_contract_events' = <<>>
          /\ pc' = "done"
          /\ ret' = Ok(<<>>)
       \/ /\ invoke_result.tag = "Err"
          /\ encoded_invoke_result' = invoke_result
          /\ ledger_changes' = <<>>
          /\ encoded_contract_events' = <<>>
          /\ pc' = "done"
          /\ ret' = Ok(<<>>)
          /\ UNCHANGED budget_exceeded_at
    /\ UNCHANGED <<inputVars, resources, hostVars, invoke_result, events, recVars>>
    /\ UNCHANGED sessionVars

\* What init_storage_snapshot.get returns for every key.
InitStorageSnapshot == [k \in LedgerKeys |-> StorageMapSnapshotSource_get(init_storage_map, k)]

\* invoke_host_function: get_ledger_changes.
GetLedgerChanges ==
    /\ mode = "enforcing"
    /\ pc = "changes"
    /\ \/ BudgetFail("changes")
       \/ LET r == get_ledger_changes(recording_mode_feature, storage_map, footprint,
                                      InitStorageSnapshot, init_ttl_map,
                                      min_live_until_ledger, restored_keys, SequenceNumber)
          IN IF r.err # ""
             THEN Fail(r.err)
             ELSE /\ ledger_changes' = r.changes
                  /\ pc' = "encode_events"
                  /\ UNCHANGED <<inputVars, resources, hostVars, invoke_result, events,
                                 encoded_invoke_result, encoded_contract_events, recVars,
                                 ret, budget_exceeded_at>>
    /\ UNCHANGED sessionVars

\* Variant of EncodeContractEvents that returns the record without events
\* when the encoding runs out of budget.
EncodeContractEventsSwallowsError ==
    /\ mode = "enforcing"
    /\ pc = "encode_events"
    /\ \/ /\ pc' = "done"
          /\ ret' = Ok(<<>>)
          /\ budget_exceeded_at' = "encode_events"
          /\ UNCHANGED <<ledger_changes, encoded_contract_events>>
       \/ /\ encoded_contract_events' = encode_contract_events(events)
          /\ pc' = "done"
          /\ ret' = Ok(<<>>)
          /\ UNCHANGED <<ledger_changes, budget_exceeded_at>>
    /\ UNCHANGED <<inputVars, resources, hostVars, invoke_result, events,
                   encoded_invoke_result, recVars>>
    /\ UNCHANGED sessionVars

\* invoke_host_function: encode_contract_events and return the record.  The
\* record only exists once this step has succeeded.
EncodeContractEvents ==
    /\ mode = "enforcing"
    /\ pc = "encode_events"
    /\ \/ /\ pc' = "done"
          /\ ret' = Err(BudgetExceeded)
          /\ budget_exceeded_at' = "encode_events"
          /\ ledger_changes' = <<>>
          /\ UNCHANGED encoded_contract_events
       \/ /\ encoded_contract_events' = encode_contract_events(events)
          /\ pc' = "done"
          /\ ret' = Ok(<<>>)
          /\ UNCHANGED <<ledger_changes, budget_exceeded_at>>
    /\ UNCHANGED <<inputVars, resources, hostVars, invoke_result, events,
                   encoded_invoke_result, recVars>>
    /\ UNCHANGED sessionVars

(***************************************************************************)
(* The recording pipeline.                                                 *)
(***************************************************************************)
\* Ledger states a snapshot source serves: an entry with a TTL has its
\* live-until ledger.
WellFormedSnapshot(snap) ==
    \A k \in LedgerKeys :
        IsSome(snap[k]) /\ IsSome(get_key_durability(k)) => IsSome(Unwrap(snap[k]).live_until)

\* The arguments of invoke_host_function_in_recording_mode over ledger
\* states of at most maxFootprint entries.
RecordingInputs(maxFootprint) ==
    /\ \E P \in SUBSET LedgerKeys :
        /\ Cardinality(P) <= maxFootprint
        /\ \E snap \in SnapshotsOver(SortedSeq(P)) :
            /\ \A k \in P : IsSome(snap[k])
            /\ WellFormedSnapshot(snap)
            /\ ledger_snapshot = snap
    /\ resources = EmptyResources
    /\ restored_rw_entry_indices = <<>>
    /\ encoded_ledger_entries = <<>>
    /\ encoded_ttl_entries = <<>>

InitRecording ==
    /\ mode = "recording"
    /\ recording_mode_feature = TRUE
    /\ RecordingInputs(MaxFootprint)
    /\ auth_mode = "Recording"
    /\ DefaultSession
    /\ InitCommon
    /\ call = NoCall
    /\ returned = None

\* invoke_host_function_in_recording_mode: create the host over a recording
\* footprint and set it up.
RecHostSetup ==
    /\ mode = "recording"
    /\ pc = "start"
    /\ \/ /\ BudgetFail("host_setup")
          /\ UNCHANGED setter_calls
       \/ /\ footprint' = EmptyMap
          /\ storage_map' = EmptyMap
          /\ setter_calls' = CallSetters(NoSetterCalls,
                                RecordingSetup(auth_mode, enable_diagnostics))
          /\ pc' = "invoke"
          /\ UNCHANGED <<inputVars, resources, restored_keys, init_storage_map,
                         init_ttl_map, outputVars, ret, budget_exceeded_at>>
    /\ UNCHANGED <<diagnostic_events, shadow_budget_exceeded>>

\* An entry of the snapshot that has expired.
SnapshotExpired(snap, k) ==
    /\ IsSome(snap[k])
    /\ IsSome(Unwrap(snap[k]).live_until)
    /\ IsSome(get_key_durability(k))
    /\ Unwrap(Unwrap(snap[k]).live_until) < SequenceNumber

\* What a recording storage holds for key k once it has loaded it from the
\* snapshot: an expired temporary entry is gone and an expired persistent
\* entry is restored with the minimal live-until ledger.
RecordingLoad(snap, k) ==
    IF ~SnapshotExpired(snap, k) THEN snap[k]
    ELSE IF is_persistent_key(k)
    THEN Some(EntryWithLiveUntil(Unwrap(snap[k]).entry, Some(min_live_until_ledger)))
    ELSE None

\* Host::invoke_function on a recording storage: the invocation touches the
\* keys of F with the access acc, its accesses to the keys of R happened in
\* a sub-call that failed and was rolled back, and it changes the keys of W.
\* The ledger state holds no entry the invocation does not touch.
RecInvokeFunction ==
    /\ mode = "recording"
    /\ pc = "invoke"
    /\ pc' = "measure_result"
    /\ \E F \in SUBSET LedgerKeys :
        /\ Cardinality(F) <= MaxFootprint
        /\ \A k \in LedgerKeys : IsSome(ledger_snapshot[k]) => k \in F
        /\ \E acc \in [F -> {"ReadOnly", "ReadWrite"}] :
            /\ \A k \in F : SnapshotExpired(ledger_snapshot, k) /\ is_persistent_key(k)
                                => acc[k] = "ReadWrite"
            /\ footprint' = acc
            /\ LET loaded == [k \in F |-> RecordingLoad(ledger_snapshot, k)]
               IN \/ /\ invoke_result' = Err(BudgetExceeded)
                     /\ budget_exceeded_at' = "invoke"
                     /\ \E ev \in EventLogs : events' = ev
                     /\ storage_map' = loaded
                     /\ UNCHANGED recording_result
                  \/ /\ \E e \in UserErrors : invoke_result' = Err(e)
                     /\ \E ev \in EventLogs : events' = ev
                     /\ storage_map' = loaded
                     /\ recording_result' =
                            [recording_result EXCEPT !.vm =
                                Some([invoke_result |-> invoke_result', events |-> events',
                                      written |-> <<>>])]
                     /\ UNCHANGED budget_exceeded_at
                  \/ /\ \E out \in VmOutputs :
                            /\ invoke_result' = Ok(out.val)
                            /\ events' = out.events
                     /\ \E R \in SUBSET F, W \in SUBSET F :
                            /\ Cardinality(R) <= 1
                            /\ W \cap R = {}
                            /\ Cardinality(W) <= MaxWrites
                            /\ \E fin \in [W -> UNION {VmFinalEntries(k, loaded[k], acc[k]) : k \in W}] :
                                /\ \A k \in W : fin[k] \in VmFinalEntries(k, loaded[k], acc[k])
                                /\ storage_map' = [k \in F \ R |->
                                                    IF k \in W THEN fin[k] ELSE loaded[k]]
                                /\ recording_result' =
                                        [recording_result EXCEPT !.vm =
                                            Some([invoke_result |-> invoke_result',
                                                  events |-> events', written |-> fin])]
                     /\ UNCHANGED budget_exceeded_at
    /\ UNCHANGED <<callVars, resources, restored_keys, init_storage_map,
                   init_ttl_map, encoded_invoke_result, ledger_changes,
                   encoded_contract_events, recVars, ret>>
    /\ setter_calls' = CallSetters(setter_calls, <<"invoke_function">>)
    /\ UNCHANGED <<diagnostic_events, shadow_budget_exceeded>>

\* invoke_host_function_in_recording_mode: encode a successful return value
\* to measure its size.
RecMeasureResult ==
    /\ mode = "recording"
    /\ pc = "measure_result"
    /\ \/ /\ invoke_result.tag = "Ok"
          /\ BudgetFail("measure_result")
       \/ /\ pc' = "auth"
          /\ contract_events_and_return_value_size' =
                IF invoke_result.tag = "Ok"
                THEN saturating_add_u32(contract_events_and_return_value_size,
                                        Len(WriteXdrScVal(invoke_result.val)))
                ELSE contract_events_and_return_value_size
          /\ UNCHANGED <<inputVars, resources, hostVars, invoke_result, events,
                         encoded_invoke_result, ledger_changes, encoded_contract_events,
                         contract_events, ret, budget_exceeded_at>>
    /\ UNCHANGED sessionVars

\* invoke_host_function_in_recording_mode: collect the authorization entries
\* and decode them under the budget.
RecAuth ==
    /\ mode = "recording"
    /\ pc = "auth"
    /\ \/ /\ BudgetFail("auth")
          /\ UNCHANGED setter_calls
       \/ /\ pc' = "walk_footprint"
          /\ setter_calls' = IF auth_mode = "Recording"
                             THEN CallSetters(setter_calls, <<"get_recorded_auth_payloads",
                                                              "set_authorization_entries">>)
                             ELSE setter_calls
          /\ UNCHANGED <<inputVars, resources, hostVars, outputVars, ret, budget_exceeded_at>>
    /\ UNCHANGED <<diagnostic_events, shadow_budget_exceeded>>

\* Variant of storage_footprint_to_ledger_footprint that puts the keys in
\* the wrong lists.
storage_footprint_to_ledger_footprint_swapped(fp) ==
    [read_only |-> SortedSeq({k \in DOMAIN fp : fp[k] = "ReadWrite"}),
     read_write |-> SortedSeq({k \in DOMAIN fp : fp[k] = "ReadOnly"})]

\* storage_footprint_to_ledger_footprint
storage_footprint_to_ledger_footprint(fp) ==
    [read_only |-> SortedSeq({k \in DOMAIN fp : fp[k] = "ReadOnly"}),
     read_write |-> SortedSeq({k \in DOMAIN fp : fp[k] = "ReadWrite"})]

WalkStart ==
    [err |-> "", disk_read_bytes |-> 0, current_rw_id |-> 0, restored_rw_entry_ids |-> <<>>,
     restored_keys |-> {}, encoded_ledger_entries |-> <<>>, encoded_ttl_entries |-> <<>>]

\* Variant of WalkFootprint that counts every entry of the snapshot towards
\* the disk read bytes.
RECURSIVE WalkFootprintCountsEveryEntry(_, _, _, _, _)
WalkFootprintCountsEveryEntry(snap, fp, keys, i, st) ==
    IF i > Len(keys) \/ st.err # "" THEN st
    ELSE
      LET lk == keys[i]
          access_type == fp[lk]
          entry_with_live_until == snap[lk]
          le == Unwrap(entry_with_live_until).entry
          live_until == Unwrap(entry_with_live_until).live_until
          encoded_le == WriteXdrEntry(le)
          soroban == KeyType(le.key) \in {"ContractData", "ContractCode"}
          auto_restored == /\ soroban
                           /\ IsSome(live_until)
                           /\ Unwrap(live_until) < SequenceNumber
                           /\ is_persistent_key(lk)
          counted == TRUE
      IN  IF ~IsSome(entry_with_live_until)
          THEN WalkFootprintCountsEveryEntry(snap, fp, keys, i + 1, st)
          ELSE IF auto_restored /\ access_type # "ReadWrite"
          THEN [st EXCEPT !.err = StorageInternal]
          ELSE WalkFootprintCountsEveryEntry(snap, fp, keys, i + 1,
                [st EXCEPT
                    !.disk_read_bytes =
                        IF counted THEN saturating_add_u32(@, Len(encoded_le)) ELSE @,
                    !.restored_rw_entry_ids =
                        IF auto_restored THEN Append(@, st.current_rw_id) ELSE @,
                    !.restored_keys = IF auto_restored THEN @ \cup {lk} ELSE @,
                    !.encoded_ledger_entries = Append(@, encoded_le),
                    !.encoded_ttl_entries =
                        Append(@, IF IsSome(live_until)
                                  THEN WriteXdrTtl(TtlEntry(lk, Unwrap(live_until)))
                                  ELSE <<>>),
                    !.current_rw_id = IF access_type = "ReadWrite" THEN @ + 1 ELSE @])

\* The loop over storage.footprint of invoke_host_function_in_recording_mode,
\* from position i of the sorted keys on.
RECURSIVE WalkFootprint(_, _, _, _, _)
WalkFootprint(snap, fp, keys, i, st) ==
    IF i > Len(keys) \/ st.err # "" THEN st
    ELSE
      LET lk == keys[i]
          access_type == fp[lk]
          entry_with_live_until == snap[lk]
          le == Unwrap(entry_with_live_until).entry
          live_until == Unwrap(entry_with_live_until).live_until
          encoded_le == WriteXdrEntry(le)
          soroban == KeyType(le.key) \in {"ContractData", "ContractCode"}
          auto_restored == /\ soroban
                           /\ IsSome(live_until)
                           /\ Unwrap(live_until) < SequenceNumber
                           /\ is_persistent_key(lk)
          counted == auto_restored \/ ~soroban
      IN  IF ~IsSome(entry_with_live_until)
          THEN WalkFootprint(snap, fp, keys, i + 1, st)
          ELSE IF auto_restored /\ access_type # "ReadWrite"
          THEN [st EXCEPT !.err = StorageInternal]
          ELSE WalkFootprint(snap, fp, keys, i + 1,
                [st EXCEPT
                    !.disk_read_bytes =
                        IF counted THEN saturating_add_u32(@, Len(encoded_le)) ELSE @,
                    !.restored_rw_entry_ids =
                        IF auto_restored THEN Append(@, st.current_rw_id) ELSE @,
                    !.restored_keys = IF auto_restored THEN @ \cup {lk} ELSE @,
                    !.encoded_ledger_entries = Append(@, encoded_le),
                    !.encoded_ttl_entries =
                        Append(@, IF IsSome(live_until)
                                  THEN WriteXdrTtl(TtlEntry(lk, Unwrap(live_until)))
                                  ELSE <<>>),
                    !.current_rw_id = IF access_type = "ReadWrite" THEN @ + 1 ELSE @])

\* invoke_host_function_in_recording_mode: the with_mut_storage block -
\* convert the footprint, walk it against the snapshot and rebuild the
\* initial storage map under the budget.
RecWalkFootprint ==
    /\ mode = "recording"
    /\ pc = "walk_footprint"
    /\ \/ BudgetFail("walk_footprint")
       \/ LET st == WalkFootprint(ledger_snapshot, footprint, SortedSeq(DOMAIN footprint), 1, WalkStart)
              r == build_storage_map_from_xdr_ledger_entries(
                        recording_mode_feature, footprint, st.encoded_ledger_entries,
                        st.encoded_ttl_entries, TRUE)
          IN IF st.err # ""
             THEN Fail(st.err)
             ELSE IF r.err # ""
             THEN Fail(r.err)
             ELSE /\ resources' = [footprint |-> storage_footprint_to_ledger_footprint(footprint),
                                   instructions |-> 0,
                                   disk_read_bytes |-> st.disk_read_bytes,
                                   write_bytes |-> 0]
                  /\ restored_rw_entry_indices' = st.restored_rw_entry_ids
                  /\ restored_keys' = Some(st.restored_keys)
                  /\ encoded_ledger_entries' = st.encoded_ledger_entries
                  /\ encoded_ttl_entries' = st.encoded_ttl_entries
                  /\ init_ttl_map' = r.ttl_map
                  /\ pc' = "finish"
                  /\ UNCHANGED <<recording_mode_feature, mode, ledger_snapshot, footprint,
                                 storage_map, init_storage_map, outputVars, ret,
                                 budget_exceeded_at, recording_result,
                                 sessionInputs, fnVars>>
    /\ setter_calls' = CallSetters(setter_calls, <<"with_mut_storage">>)
    /\ UNCHANGED <<diagnostic_events, shadow_budget_exceeded>>

\* invoke_host_function_in_recording_mode: Host::try_finish; an empty
\* restored key set becomes None.
RecFinish ==
    /\ mode = "recording"
    /\ pc = "finish"
    /\ pc' = "changes"
    /\ restored_keys' = IF Unwrap(restored_keys) = {} THEN None ELSE restored_keys
    /\ diagnostic_events' = IF enable_diagnostics
                            THEN extract_diagnostic_events(events, diagnostic_events)
                            ELSE diagnostic_events
    /\ setter_calls' = CallSetters(setter_calls, <<"try_finish">>)
    /\ UNCHANGED <<inputVars, resources, footprint, storage_map, init_storage_map,
                   init_ttl_map, outputVars, ret, budget_exceeded_at,
                   shadow_budget_exceeded>>

\* Budget::with_shadow_mode around a loop of n metered steps: the number of
\* steps done when a charge under the shadow budget fails, or n when none
\* fails.  The error is dropped.
ShadowSteps(n) == 0..n

\* Variant of FootprintOnlyChanges that makes no record.
FootprintOnlyChangesDropped(fp, map) == <<>>

\* add_footprint_only_ledger_changes: a minimal record for every footprint
\* key that is not in the storage map.
FootprintOnlyChanges(fp, map) ==
    LET keys == SortedSeq({k \in DOMAIN fp : k \notin DOMAIN map})
    IN [i \in 1..Len(keys) |->
            [LedgerEntryChangeDefault EXCEPT
                !.encoded_key = WriteXdrKey(keys[i]),
                !.read_only = (fp[keys[i]] = "ReadOnly")]]

\* invoke_host_function_in_recording_mode: the ledger changes and the
\* contract events of a successful invocation.  The footprint-only records
\* are added under the shadow budget: when it runs out, the records added
\* so far stay and the error is dropped.
RecLedgerChanges ==
    /\ mode = "recording"
    /\ pc = "changes"
    /\ \/ /\ invoke_result.tag = "Err"
          /\ ledger_changes' = <<>>
          /\ contract_events' = <<>>
          /\ pc' = "resources"
          /\ UNCHANGED <<ret, budget_exceeded_at, contract_events_and_return_value_size,
                         shadow_budget_exceeded>>
       \/ /\ invoke_result.tag = "Ok"
          /\ pc' = "done"
          /\ ret' = Err(BudgetExceeded)
          /\ \E step \in {"changes", "encode_events"} : budget_exceeded_at' = step
          /\ UNCHANGED <<ledger_changes, contract_events, contract_events_and_return_value_size,
                         shadow_budget_exceeded>>
       \/ /\ invoke_result.tag = "Ok"
          /\ LET r == get_ledger_changes(recording_mode_feature, storage_map, footprint,
                                         ledger_snapshot, init_ttl_map,
                                         min_live_until_ledger, restored_keys, SequenceNumber)
                 extra == FootprintOnlyChanges(footprint, storage_map)
                 encoded == encode_contract_events(events)
             IN IF r.err # ""
                THEN /\ pc' = "done"
                     /\ ret' = Err(r.err)
                     /\ UNCHANGED <<ledger_changes, contract_events,
                                    contract_events_and_return_value_size,
                                    shadow_budget_exceeded>>
                ELSE /\ \E n \in ShadowSteps(Len(extra)) :
                            /\ ledger_changes' = r.changes \o SubSeq(extra, 1, n)
                            /\ shadow_budget_exceeded' = (n < Len(extra))
                     /\ contract_events' = FilterContractEvents(events)
                     /\ contract_events_and_return_value_size' =
                            saturating_add_u32(contract_events_and_return_value_size,
                                               SumSeq([i \in 1..Len(encoded) |-> Len(encoded[i])]))
                     /\ pc' = "resources"
                     /\ UNCHANGED ret
          /\ UNCHANGED budget_exceeded_at
    /\ UNCHANGED <<inputVars, resources, hostVars, invoke_result, events,
                   encoded_invoke_result, encoded_contract_events,
                   diagnostic_events, setter_calls>>

\* Variant of WriteBytes that sums the sizes for rent of the new values.
RECURSIVE WriteBytesForRent(_)
WriteBytesForRent(changes) ==
    IF changes = <<>> THEN 0
    ELSE LET c == Head(changes)
         IN saturating_add_u32(
                IF ~c.read_only /\ IsSome(c.encoded_new_value)
                THEN c.new_entry_size_bytes_for_rent ELSE 0,
                WriteBytesForRent(Tail(changes)))

\* The sum of the lengths of the new values of the changes that are not
\* read-only.
RECURSIVE WriteBytes(_)
WriteBytes(changes) ==
    IF changes = <<>> THEN 0
    ELSE LET c == Head(changes)
         IN saturating_add_u32(
                IF ~c.read_only /\ IsSome(c.encoded_new_value)
                THEN Len(Unwrap(c.encoded_new_value)) ELSE 0,
                WriteBytes(Tail(changes)))

\* Variant of with_shadow_mode that charges the steps done under the shadow
\* budget to the cpu counter.
with_shadow_mode_charging_cpu(cpu_insns, shadow_steps) == cpu_insns + shadow_steps

\* Budget::with_shadow_mode, seen from Budget::get_cpu_insns_consumed: the
\* steps done under the shadow budget, the start of the iteration over the
\* footprint and one step per record made, leave the cpu counter as it was.
with_shadow_mode(cpu_insns, shadow_steps) == cpu_insns

\* The change records get_ledger_changes made, one per key of storage.map;
\* none for a failed invocation.
StorageBackedChanges ==
    IF invoke_result.tag = "Ok" THEN SortedSeq(DOMAIN storage_map) ELSE <<>>

\* The metered steps of a recording run that returns a record, one unit of
\* cpu each: the invocation, the encoded return value, the walk of the
\* footprint, the change records of get_ledger_changes and the encoded
\* contract events.
MainBudgetSteps ==
    1 + (IF invoke_result.tag = "Ok" THEN 1 ELSE 0) + Cardinality(DOMAIN footprint)
      + Len(StorageBackedChanges) + Len(contract_events)

\* invoke_host_function_in_recording_mode: fill in the resources and return.
RecResources ==
    /\ mode = "recording"
    /\ pc = "resources"
    /\ resources' = [resources EXCEPT
                        !.instructions =
                            with_shadow_mode(
                                MainBudgetSteps,
                                IF invoke_result.tag = "Ok"
                                THEN 1 + Len(ledger_changes) - Len(StorageBackedChanges)
                                ELSE 0),
                        !.write_bytes = WriteBytes(ledger_changes)]
    /\ pc' = "done"
    /\ ret' = Ok(<<>>)
    /\ UNCHANGED <<inputVars, hostVars, outputVars, budget_exceeded_at>>
    /\ UNCHANGED sessionVars

\* invoke_host_function_using_simulation_with_signers: run the enforcing
\* pipeline with the footprint, the restored indices and the ledger
\* entries of a recording run that returned a record, to compare outputs.
invoke_host_function_using_simulation ==
    /\ mode = "recording"
    /\ auth_mode = "Recording"
    /\ pc = "done"
    /\ ret.tag = "Ok"
    /\ budget_exceeded_at = "none"
    /\ mode' = "enforcing"
    /\ pc' = "start"
    /\ recording_result' =
            [recording_result EXCEPT !.output =
                Some([invoke_result |-> invoke_result,
                      ledger_changes |-> ledger_changes,
                      contract_events |-> contract_events,
                      footprint_only |-> (DOMAIN footprint) \ (DOMAIN storage_map)])]
    /\ restored_keys' = None
    /\ footprint' = <<>>
    /\ storage_map' = <<>>
    /\ init_storage_map' = <<>>
    /\ init_ttl_map' = <<>>
    /\ invoke_result' = Pending
    /\ events' = <<>>
    /\ encoded_invoke_result' = Pending
    /\ ledger_changes' = <<>>
    /\ encoded_contract_events' = <<>>
    /\ contract_events' = <<>>
    /\ contract_events_and_return_value_size' = 0
    /\ ret' = Pending
    /\ trace_hook' = FALSE
    /\ module_cache' = TRUE
    /\ diagnostic_events' = <<>>
    /\ setter_calls' = NoSetterCalls
    /\ shadow_budget_exceeded' = FALSE
    /\ UNCHANGED <<recording_mode_feature, ledger_snapshot, resources,
                   restored_rw_entry_indices, encoded_ledger_entries,
                   encoded_ttl_entries, budget_exceeded_at,
                   enable_diagnostics, auth_mode, fnVars>>

(***************************************************************************)
(* The enforcing pipeline on footprint vectors and ledger entries that are *)
(* listed in any order.                                                    *)
(***************************************************************************)
\* The sequences that list every element of S once.
Orderings(S) ==
    {s \in [1..Cardinality(S) -> S] : \A i, j \in 1..Cardinality(S) : i # j => s[i] # s[j]}

InitOrder ==
    /\ mode = "enforcing"
    /\ recording_mode_feature \in BOOLEAN
    /\ \E P \in SUBSET LedgerKeys :
        /\ Cardinality(P) <= MaxFootprint
        /\ \E RO \in SUBSET P :
           \E snap \in SnapshotsOver(SortedSeq(P)) :
            /\ WellFormedSnapshot(snap)
            /\ \A k \in P : ~SnapshotExpired(snap, k)
            /\ ledger_snapshot = snap
            /\ \E ro \in Orderings(RO) :
               \E rw \in Orderings(P \ RO) :
               \E present \in Orderings({k \in P : IsSome(snap[k])}) :
                /\ resources = [EmptyResources EXCEPT
                                    !.footprint = [read_only |-> ro, read_write |-> rw]]
                /\ encoded_ledger_entries = EncodedEntriesOf(snap, present)
                /\ encoded_ttl_entries = EncodedTtlsOf(snap, present)
    /\ restored_rw_entry_indices = <<>>
    /\ auth_mode = "Enforcing"
    /\ DefaultSession
    /\ InitCommon
    /\ call = NoCall
    /\ returned = None

NextEnforcing ==
    \/ BuildRestoredKeySet
    \/ BuildStorageFootprint
    \/ BuildStorageMap
    \/ HostSetup
    \/ InvokeFunction
    \/ Finish
    \/ EncodeInvokeResult
    \/ GetLedgerChanges
    \/ EncodeContractEvents

SpecOrder == InitOrder /\ [][NextEnforcing]_vars

(***************************************************************************)
(* Functions of the library called on their own.  A call holds the         *)
(* function and its arguments; returned holds what the function returned.  *)
(***************************************************************************)
pipelineVars == <<recording_mode_feature, mode, pc, ledger_snapshot, resources,
                  restored_rw_entry_indices, encoded_ledger_entries,
                  encoded_ttl_entries, hostVars, outputVars, ret, budget_exceeded_at,
                  recording_result, sessionInputs, sessionVars>>

\* No pipeline runs.
InitIdle ==
    /\ mode = "none"
    /\ recording_mode_feature = TRUE
    /\ ledger_snapshot = [k \in LedgerKeys |-> None]
    /\ resources = EmptyResources
    /\ restored_rw_entry_indices = <<>>
    /\ encoded_ledger_entries = <<>>
    /\ encoded_ttl_entries = <<>>
    /\ auth_mode = "Enforcing"
    /\ DefaultSession
    /\ InitCommon

\* Sizes a caller passes for entry_xdr_size: small ones and the largest.
XdrSizes == (0..MaxXdrSize) \cup {U32_MAX - 1, U32_MAX}

EntrySizeForRentCalls ==
    [fn : {"entry_size_for_rent"},
     entry : {LedgerEntry(k, v) : k \in LedgerKeys, v \in 0..MaxVal},
     entry_xdr_size : XdrSizes]

\* Change records a caller passes to extract_rent_changes for key k: any
\* sizes for rent, with or without a new value, with or without a
\* ttl_change.
ChangeRecords(k) ==
    {[read_only |-> FALSE, encoded_key |-> WriteXdrKey(k),
      old_entry_size_bytes_for_rent |-> old_size,
      encoded_new_value |-> new_value,
      new_entry_size_bytes_for_rent |-> new_size,
      ttl_change |-> ttl] :
        old_size \in 1..MaxRentSize, new_size \in 1..MaxRentSize,
        new_value \in {None, Some(WriteXdrEntry(LedgerEntry(k, 1)))},
        ttl \in {None} \cup
                (IF IsSome(get_key_durability(k))
                 THEN {Some(LedgerEntryLiveUntilChange(
                            sha256_hash_from_bytes(WriteXdrKey(k)),
                            Unwrap(get_key_durability(k)), KeyType(k), old, new)) :
                        old \in {0} \cup OldLiveUntils, new \in {0} \cup OldLiveUntils}
                 ELSE {})}

ExtractRentChangesCalls ==
    [fn : {"extract_rent_changes"},
     ledger_changes : UNION {[1..n -> UNION {ChangeRecords(k) : k \in LedgerKeys}] :
                                n \in 0..MaxChanges}]

LedgerEntryRentChange(is_persistent, is_code_entry, old_size, new_size, old, new) ==
    [is_persistent |-> is_persistent, is_code_entry |-> is_code_entry,
     old_size_bytes |-> old_size, new_size_bytes |-> new_size,
     old_live_until_ledger |-> old, new_live_until_ledger |-> new]

\* Variant of extract_rent_changes that takes the new size for rent of a
\* change whether or not the change has a new value.
RECURSIVE extract_rent_changes_new_size_always(_)
extract_rent_changes_new_size_always(changes) ==
    IF changes = <<>> THEN <<>>
    ELSE
      LET entry_change == Head(changes)
          rest == extract_rent_changes_new_size_always(Tail(changes))
      IN IF ~IsSome(entry_change.ttl_change) THEN rest
         ELSE
           LET ttl_change == Unwrap(entry_change.ttl_change)
               new_size_bytes_for_rent == entry_change.new_entry_size_bytes_for_rent
           IN IF /\ ttl_change.old_live_until_ledger >= ttl_change.new_live_until_ledger
                 /\ entry_change.old_entry_size_bytes_for_rent >= new_size_bytes_for_rent
              THEN rest
              ELSE <<LedgerEntryRentChange(
                        ttl_change.durability = "Persistent",
                        ttl_change.entry_type = "ContractCode",
                        entry_change.old_entry_size_bytes_for_rent,
                        new_size_bytes_for_rent,
                        ttl_change.old_live_until_ledger,
                        ttl_change.new_live_until_ledger)>> \o rest

\* extract_rent_changes
RECURSIVE extract_rent_changes(_)
extract_rent_changes(changes) ==
    IF changes = <<>> THEN <<>>
    ELSE
      LET entry_change == Head(changes)
          rest == extract_rent_changes(Tail(changes))
      IN IF ~IsSome(entry_change.ttl_change) THEN rest
         ELSE
           LET ttl_change == Unwrap(entry_change.ttl_change)
               new_size_bytes_for_rent ==
                    IF IsSome(entry_change.encoded_new_value)
                    THEN entry_change.new_entry_size_bytes_for_rent
                    ELSE entry_change.old_entry_size_bytes_for_rent
           IN IF /\ ttl_change.old_live_until_ledger >= ttl_change.new_live_until_ledger
                 /\ entry_change.old_entry_size_bytes_for_rent >= new_size_bytes_for_rent
              THEN rest
              ELSE <<LedgerEntryRentChange(
                        ttl_change.durability = "Persistent",
                        ttl_change.entry_type = "ContractCode",
                        entry_change.old_entry_size_bytes_for_rent,
                        new_size_bytes_for_rent,
                        ttl_change.old_live_until_ledger,
                        ttl_change.new_live_until_ledger)>> \o rest

\* extract_rent_changes called on its own.
CallExtractRentChanges ==
    /\ call.fn = "extract_rent_changes"
    /\ returned = None
    /\ returned' = Some(Ok(extract_rent_changes(call.ledger_changes)))
    /\ UNCHANGED <<call, pipelineVars>>

\* entry_size_for_rent called on its own; the module memory cost of a
\* ContractCode entry is charged to the budget.
CallEntrySizeForRent ==
    /\ call.fn = "entry_size_for_rent"
    /\ returned = None
    /\ \/ returned' = Some(Ok(entry_size_for_rent(call.entry, call.entry_xdr_size)))
       \/ /\ KeyType(call.entry.key) = "ContractCode"
          /\ returned' = Some(Err(BudgetExceeded))
    /\ UNCHANGED <<call, pipelineVars>>

InitRentSize ==
    /\ call \in EntrySizeForRentCalls
    /\ returned = None
    /\ InitIdle

SpecRentSize == InitRentSize /\ [][CallEntrySizeForRent]_vars

InitRentChanges ==
    /\ call \in ExtractRentChangesCalls
    /\ returned = None
    /\ InitIdle

SpecRentChanges == InitRentChanges /\ [][CallExtractRentChanges]_vars

(***************************************************************************)
(* The simulation of the extend-TTL and restore operations.                *)
(***************************************************************************)
\* Keys the simulation is called on: an account key, a temporary and
\* several persistent ones.
SimulationKeys == 1..SimulationNKeys

\* Lists of keys a caller passes, with repetitions.
KeyLists == UNION {[1..n -> SimulationKeys] : n \in 0..MaxKeyList}

\* The snapshots over the keys 1..n: an entry of a key with durability has
\* a live-until ledger.
RECURSIVE SimulationSnapshots(_)
SimulationSnapshots(n) ==
    IF n = 0 THEN {<<>>}
    ELSE {Append(snap, o) :
            snap \in SimulationSnapshots(n - 1),
            o \in {x \in SnapshotOptions(n) :
                     IsSome(x) /\ IsSome(get_key_durability(n))
                         => IsSome(Unwrap(x).live_until)}}

\* Values a caller passes for extend_to: small ones and the largest.
ExtendTos == (0..MaxExtendTo) \cup {U32_MAX - 1, U32_MAX}

\* Vec::sort of a list of keys.
RECURSIVE SortKeys(_)
SortKeys(keys) ==
    IF keys = <<>> THEN <<>>
    ELSE LET m == CHOOSE i \in DOMAIN keys : \A j \in DOMAIN keys : keys[i] <= keys[j]
         IN <<keys[m]>> \o SortKeys([j \in 1..(Len(keys) - 1) |->
                                        IF j < m THEN keys[j] ELSE keys[j + 1]])

SimulationStart == [err |-> "", keys |-> <<>>, rent_changes |-> <<>>, bytes |-> 0]

\* The loop of simulate_extend_ttl_op_resources from position i on.
RECURSIVE ExtendLoop(_, _, _, _, _, _)
ExtendLoop(keys_to_extend, snapshot, current_ledger_seq, new_live_until_ledger, i, st) ==
    IF i > Len(keys_to_extend) \/ st.err # "" THEN st
    ELSE
      LET key == keys_to_extend[i]
          durability == get_key_durability(key)
          entry_with_live_until == snapshot[key]
          entry == Unwrap(entry_with_live_until).entry
          live_until == Unwrap(entry_with_live_until).live_until
          current_live_until_ledger == Unwrap(live_until)
          entry_xdr_size == Len(WriteXdrEntry(entry))
          entry_size == entry_size_for_rent(entry, entry_xdr_size)
          next(st2) == ExtendLoop(keys_to_extend, snapshot, current_ledger_seq,
                                  new_live_until_ledger, i + 1, st2)
      IN  IF ~IsSome(durability) THEN [st EXCEPT !.err = "no TTL"]
          ELSE IF ~IsSome(entry_with_live_until) THEN next(st)
          ELSE IF ~IsSome(live_until) THEN [st EXCEPT !.err = "missing TTL"]
          ELSE IF new_live_until_ledger <= current_live_until_ledger THEN next(st)
          ELSE IF ~(current_live_until_ledger >= current_ledger_seq)
          THEN [st EXCEPT !.err = "expired"]
          ELSE next([st EXCEPT
                        !.keys = Append(@, key),
                        !.rent_changes = Append(@, LedgerEntryRentChange(
                            Unwrap(durability) = "Persistent",
                            KeyType(key) = "ContractCode",
                            entry_size, entry_size,
                            current_live_until_ledger, new_live_until_ledger))])

\* Variant of simulate_extend_ttl_op_resources that puts the extended keys
\* in the read-write footprint.
simulate_extend_ttl_op_resources_read_write(keys_to_extend, snapshot, current_ledger_seq, new_live_until_ledger) ==
    LET st == ExtendLoop(keys_to_extend, snapshot, current_ledger_seq,
                         new_live_until_ledger, 1, SimulationStart)
    IN IF st.err # "" THEN Err(st.err)
       ELSE Ok([resources |-> [footprint |-> [read_only |-> <<>>,
                                              read_write |-> SortKeys(st.keys)],
                               instructions |-> 0, disk_read_bytes |-> 0, write_bytes |-> 0],
                rent_changes |-> st.rent_changes])

\* simulate_extend_ttl_op_resources, given the sum of current_ledger_seq and
\* extend_to.
simulate_extend_ttl_op_resources(keys_to_extend, snapshot, current_ledger_seq, new_live_until_ledger) ==
    LET st == ExtendLoop(keys_to_extend, snapshot, current_ledger_seq,
                         new_live_until_ledger, 1, SimulationStart)
    IN IF st.err # "" THEN Err(st.err)
       ELSE Ok([resources |-> [footprint |-> [read_only |-> SortKeys(st.keys),
                                              read_write |-> <<>>],
                               instructions |-> 0, disk_read_bytes |-> 0, write_bytes |-> 0],
                rent_changes |-> st.rent_changes])

\* The function panicked.
Panic == [tag |-> "Panic", val |-> <<>>, err |-> "attempt to add with overflow"]

ExtendTtlCalls ==
    [fn : {"simulate_extend_ttl_op_resources"},
     keys_to_extend : KeyLists,
     snapshot : SimulationSnapshots(SimulationNKeys),
     extend_to : ExtendTos]

\* simulate_extend_ttl_op_resources called on its own.  The sum
\* current_ledger_seq + extend_to is a u32 addition: when it overflows, a
\* build with overflow checks panics and a build without them goes on with
\* the wrapped sum.
CallSimulateExtendTtl ==
    /\ call.fn = "simulate_extend_ttl_op_resources"
    /\ returned = None
    /\ LET overflows == call.extend_to > U32_MAX - SequenceNumber
           wrapped == call.extend_to - (U32_MAX - SequenceNumber) - 1
       IN IF overflows
          THEN \/ returned' = Some(Panic)
               \/ returned' = Some(simulate_extend_ttl_op_resources(
                                    call.keys_to_extend, call.snapshot,
                                    SequenceNumber, wrapped))
          ELSE returned' = Some(simulate_extend_ttl_op_resources(
                                    call.keys_to_extend, call.snapshot,
                                    SequenceNumber, SequenceNumber + call.extend_to))
    /\ UNCHANGED <<call, pipelineVars>>

\* The loop of simulate_restore_op_resources from position i on.
RECURSIVE RestoreLoop(_, _, _, _, _, _)
RestoreLoop(keys_to_restore, snapshot_source, sequence_number, restored_live_until_ledger, i, st) ==
    IF i > Len(keys_to_restore) \/ st.err # "" THEN st
    ELSE
      LET key == keys_to_restore[i]
          durability == get_key_durability(key)
          entry_with_live_until == snapshot_source[key]
          entry == Unwrap(entry_with_live_until).entry
          live_until == Unwrap(entry_with_live_until).live_until
          current_live_until_ledger == Unwrap(live_until)
          entry_xdr_size == Len(WriteXdrEntry(entry))
          entry_rent_size == entry_size_for_rent(entry, entry_xdr_size)
          next(st2) == RestoreLoop(keys_to_restore, snapshot_source, sequence_number,
                                   restored_live_until_ledger, i + 1, st2)
      IN  IF durability # Some("Persistent") THEN [st EXCEPT !.err = "not persistent"]
          ELSE IF ~IsSome(entry_with_live_until) THEN [st EXCEPT !.err = "Missing entry"]
          ELSE IF ~IsSome(live_until) THEN [st EXCEPT !.err = "missing TTL"]
          ELSE IF current_live_until_ledger >= sequence_number THEN next(st)
          ELSE next([st EXCEPT
                        !.keys = Append(@, key),
                        !.bytes = saturating_add_u32(@, entry_xdr_size),
                        !.rent_changes = Append(@, LedgerEntryRentChange(
                            TRUE, KeyType(key) = "ContractCode",
                            0, entry_rent_size,
                            0, restored_live_until_ledger))])

\* Variant of simulate_restore_op_resources that reports no written bytes.
simulate_restore_op_resources_no_write_bytes(keys_to_restore, snapshot_source, sequence_number) ==
    LET st == RestoreLoop(keys_to_restore, snapshot_source, sequence_number,
                          min_live_until_ledger_checked("Persistent"), 1, SimulationStart)
    IN IF st.err # "" THEN Err(st.err)
       ELSE Ok([resources |-> [footprint |-> [read_only |-> <<>>,
                                              read_write |-> SortKeys(st.keys)],
                               instructions |-> 0, disk_read_bytes |-> st.bytes,
                               write_bytes |-> 0],
                rent_changes |-> st.rent_changes])

simulate_restore_op_resources(keys_to_restore, snapshot_source, sequence_number) ==
    LET st == RestoreLoop(keys_to_restore, snapshot_source, sequence_number,
                          min_live_until_ledger_checked("Persistent"), 1, SimulationStart)
    IN IF st.err # "" THEN Err(st.err)
       ELSE Ok([resources |-> [footprint |-> [read_only |-> <<>>,
                                              read_write |-> SortKeys(st.keys)],
                               instructions |-> 0, disk_read_bytes |-> st.bytes,
                               write_bytes |-> st.bytes],
                rent_changes |-> st.rent_changes])

RestoreCalls ==
    [fn : {"simulate_restore_op_resources"},
     keys_to_restore : KeyLists,
     snapshot_source : SimulationSnapshots(SimulationNKeys)]

\* simulate_restore_op_resources called on its own.
CallSimulateRestore ==
    /\ call.fn = "simulate_restore_op_resources"
    /\ returned = None
    /\ returned' = Some(simulate_restore_op_resources(
                         call.keys_to_restore, call.snapshot_source, SequenceNumber))
    /\ UNCHANGED <<call, pipelineVars>>

InitSimulation ==
    /\ call \in ExtendTtlCalls \cup RestoreCalls
    /\ returned = None
    /\ InitIdle

NextSimulation ==
    \/ CallSimulateExtendTtl
    \/ CallSimulateRestore

SpecSimulation == InitSimulation /\ [][NextSimulation]_vars

(***************************************************************************)
(* 64-bit integers.  The fee arithmetic is done in i64 and saturates, and  *)
(* its values do not fit the integers of the model checker, so an i64 is a *)
(* sign and a magnitude, the magnitude a sequence of decimal groups of     *)
(* three digits, lowest group first, without leading zero groups.          *)
(***************************************************************************)
\* The magnitude without its leading zero groups.
RECURSIVE MagNorm(_)
MagNorm(a) ==
    IF a = <<>> THEN <<>>
    ELSE IF a[Len(a)] = 0 THEN MagNorm(SubSeq(a, 1, Len(a) - 1))
    ELSE a

\* -1, 0 or 1 as a is below, equal to or above b.
RECURSIVE MagCmp(_, _)
MagCmp(a, b) ==
    IF Len(a) # Len(b) THEN (IF Len(a) < Len(b) THEN -1 ELSE 1)
    ELSE IF a = <<>> THEN 0
    ELSE IF a[Len(a)] # b[Len(b)] THEN (IF a[Len(a)] < b[Len(b)] THEN -1 ELSE 1)
    ELSE MagCmp(SubSeq(a, 1, Len(a) - 1), SubSeq(b, 1, Len(b) - 1))

\* a + b + c for a carry c.
RECURSIVE MagAdd(_, _, _)
MagAdd(a, b, c) ==
    IF a = <<>> /\ b = <<>> THEN (IF c = 0 THEN <<>> ELSE <<c>>)
    ELSE LET x == (IF a = <<>> THEN 0 ELSE Head(a)) + (IF b = <<>> THEN 0 ELSE Head(b)) + c
         IN <<x % 1000>> \o MagAdd(IF a = <<>> THEN <<>> ELSE Tail(a),
                                   IF b = <<>> THEN <<>> ELSE Tail(b),
                                   x \div 1000)

\* a - b - c for a >= b + c and a borrow c, before normalisation.
RECURSIVE MagSub(_, _, _)
MagSub(a, b, c) ==
    IF a = <<>> THEN <<>>
    ELSE LET x == Head(a) - (IF b = <<>> THEN 0 ELSE Head(b)) - c
         IN <<IF x < 0 THEN x + 1000 ELSE x>>
                \o MagSub(Tail(a), IF b = <<>> THEN <<>> ELSE Tail(b),
                          IF x < 0 THEN 1 ELSE 0)

\* a * m + c for one group m, before normalisation.
RECURSIVE MagMulGroup(_, _, _)
MagMulGroup(a, m, c) ==
    IF a = <<>> THEN (IF c = 0 THEN <<>> ELSE <<c>>)
    ELSE LET x == Head(a) * m + c
         IN <<x % 1000>> \o MagMulGroup(Tail(a), m, x \div 1000)

RECURSIVE MagMul(_, _)
MagMul(a, b) ==
    IF b = <<>> THEN <<>>
    ELSE LET high == MagMul(a, Tail(b))
         IN MagAdd(MagNorm(MagMulGroup(a, Head(b), 0)),
                   IF high = <<>> THEN <<>> ELSE <<0>> \o high, 0)

\* Quotient and remainder of a by d > 0, by long division from the highest
\* group of a down; a group of the quotient is the largest k with
\* k * d <= r.
RECURSIVE MagDivMod(_, _)
MagDivMod(a, d) ==
    IF a = <<>> THEN [q |-> <<>>, r |-> <<>>]
    ELSE LET high == MagDivMod(Tail(a), d)
             r == MagNorm(<<Head(a)>> \o high.r)
             RECURSIVE QuotientGroup(_, _)
             QuotientGroup(lo, hi) ==
                IF lo = hi THEN lo
                ELSE LET mid == (lo + hi + 1) \div 2
                     IN IF MagCmp(MagNorm(MagMulGroup(d, mid, 0)), r) <= 0
                        THEN QuotientGroup(mid, hi)
                        ELSE QuotientGroup(lo, mid - 1)
             k == QuotientGroup(0, 999)
         IN [q |-> MagNorm(<<k>> \o high.q),
             r |-> MagNorm(MagSub(r, MagNorm(MagMulGroup(d, k, 0)), 0))]

\* An i64: sign 1 or -1 and magnitude; zero has sign 1.
I64(sign, mag) == [sign |-> IF mag = <<>> THEN 1 ELSE sign, mag |-> mag]

\* The i64 of an integer of the model checker.
I64OfInt(n) ==
    LET RECURSIVE MagOfNat(_)
        MagOfNat(m) == IF m = 0 THEN <<>> ELSE <<m % 1000>> \o MagOfNat(m \div 1000)
    IN IF n < 0 THEN I64(-1, MagOfNat(-n)) ELSE I64(1, MagOfNat(n))

\* The i64 written in groups of three digits, highest group first, as in
\* 9_223_372_036_854_775_807.
I64OfGroups(groups) ==
    I64(1, MagNorm([i \in 1..Len(groups) |-> groups[Len(groups) + 1 - i]]))

I64_MAX == I64OfGroups(<<9, 223, 372, 36, 854, 775, 807>>)

\* u32::MAX as an i64.
I64OfU32Max == I64OfGroups(<<4, 294, 967, 295>>)

\* -1, 0 or 1 as x is below, equal to or above y.
I64Cmp(x, y) ==
    IF x.sign # y.sign THEN (IF x.sign < y.sign THEN -1 ELSE 1)
    ELSE x.sign * MagCmp(x.mag, y.mag)

\* The value of the exact result in i64, saturated at i64::MAX and i64::MIN.
I64Saturate(x) ==
    LET min == I64(-1, MagAdd(I64_MAX.mag, <<1>>, 0))
    IN IF I64Cmp(x, I64_MAX) > 0 THEN I64_MAX
       ELSE IF I64Cmp(x, min) < 0 THEN min
       ELSE x

\* The exact sum.
I64ExactAdd(x, y) ==
    IF x.sign = y.sign THEN I64(x.sign, MagAdd(x.mag, y.mag, 0))
    ELSE IF MagCmp(x.mag, y.mag) >= 0 THEN I64(x.sign, MagNorm(MagSub(x.mag, y.mag, 0)))
    ELSE I64(y.sign, MagNorm(MagSub(y.mag, x.mag, 0)))

\* i64::saturating_add, saturating_sub and saturating_mul
saturating_add(x, y) == I64Saturate(I64ExactAdd(x, y))
saturating_sub(x, y) == I64Saturate(I64ExactAdd(x, I64(-y.sign, y.mag)))
saturating_mul(x, y) == I64Saturate(I64(x.sign * y.sign, MagMul(x.mag, y.mag)))

\* num_integer::div_ceil for a positive denominator: the quotient rounded
\* towards positive infinity.
div_ceil(x, d) ==
    LET qr == MagDivMod(x.mag, d.mag)
    IN IF x.sign = 1
       THEN I64(1, IF qr.r = <<>> THEN qr.q ELSE MagAdd(qr.q, <<1>>, 0))
       ELSE I64(-1, qr.q)

\* The division of i64: the quotient rounded towards zero, for a positive
\* denominator.
I64Div(x, d) == I64(x.sign, MagDivMod(x.mag, d.mag).q)

(***************************************************************************)
(* The fees.  A u32 resource is held as the i64 the fee functions convert  *)
(* it to.                                                                  *)
(***************************************************************************)
\* The fee of a resource charged per increment, rounded up.
compute_fee_per_increment(resource_value, fee_rate, increment) ==
    div_ceil(saturating_mul(resource_value, fee_rate),
             IF I64Cmp(increment, I64OfInt(1)) >= 0 THEN increment ELSE I64OfInt(1))

\* Variant of compute_transaction_resource_fee that adds the 300 bytes of
\* the transaction result without the saturation at u32::MAX.
compute_transaction_resource_fee_base_size_unsaturated(tx_resources, fee_config) ==
    LET compute_fee == compute_fee_per_increment(
            tx_resources.instructions, fee_config.fee_per_instruction_increment,
            I64OfInt(10000))
        ledger_read_entry_fee == saturating_mul(
            fee_config.fee_per_disk_read_entry, tx_resources.disk_read_entries)
        ledger_write_entry_fee == saturating_mul(
            fee_config.fee_per_write_entry, tx_resources.write_entries)
        ledger_read_bytes_fee == compute_fee_per_increment(
            tx_resources.disk_read_bytes, fee_config.fee_per_disk_read_1kb,
            I64OfInt(1024))
        ledger_write_bytes_fee == compute_fee_per_increment(
            tx_resources.write_bytes, fee_config.fee_per_write_1kb, I64OfInt(1024))
        size_with_result == I64ExactAdd(tx_resources.transaction_size_bytes, I64OfInt(300))
        historical_fee == compute_fee_per_increment(
            size_with_result,
            fee_config.fee_per_historical_1kb, I64OfInt(1024))
        events_fee == compute_fee_per_increment(
            tx_resources.contract_events_size_bytes,
            fee_config.fee_per_contract_event_1kb, I64OfInt(1024))
        bandwidth_fee == compute_fee_per_increment(
            tx_resources.transaction_size_bytes,
            fee_config.fee_per_transaction_size_1kb, I64OfInt(1024))
    IN <<saturating_add(saturating_add(saturating_add(saturating_add(saturating_add(
            saturating_add(compute_fee, ledger_read_entry_fee),
            ledger_write_entry_fee), ledger_read_bytes_fee), ledger_write_bytes_fee),
            historical_fee), bandwidth_fee),
         events_fee>>

\* Variant of compute_transaction_resource_fee that charges the read entry
\* fee for the written entries as well.
compute_transaction_resource_fee_writes_read(tx_resources, fee_config) ==
    LET compute_fee == compute_fee_per_increment(
            tx_resources.instructions, fee_config.fee_per_instruction_increment,
            I64OfInt(10000))
        ledger_read_entry_fee == saturating_mul(
            fee_config.fee_per_disk_read_entry, saturating_add(tx_resources.disk_read_entries, tx_resources.write_entries))
        ledger_write_entry_fee == saturating_mul(
            fee_config.fee_per_write_entry, tx_resources.write_entries)
        ledger_read_bytes_fee == compute_fee_per_increment(
            tx_resources.disk_read_bytes, fee_config.fee_per_disk_read_1kb,
            I64OfInt(1024))
        ledger_write_bytes_fee == compute_fee_per_increment(
            tx_resources.write_bytes, fee_config.fee_per_write_1kb, I64OfInt(1024))
        size_with_result == I64ExactAdd(tx_resources.transaction_size_bytes, I64OfInt(300))
        historical_fee == compute_fee_per_increment(
            IF I64Cmp(size_with_result, I64OfU32Max) > 0 THEN I64OfU32Max ELSE size_with_result,
            fee_config.fee_per_historical_1kb, I64OfInt(1024))
        events_fee == compute_fee_per_increment(
            tx_resources.contract_events_size_bytes,
            fee_config.fee_per_contract_event_1kb, I64OfInt(1024))
        bandwidth_fee == compute_fee_per_increment(
            tx_resources.transaction_size_bytes,
            fee_config.fee_per_transaction_size_1kb, I64OfInt(1024))
    IN <<saturating_add(saturating_add(saturating_add(saturating_add(saturating_add(
            saturating_add(compute_fee, ledger_read_entry_fee),
            ledger_write_entry_fee), ledger_read_bytes_fee), ledger_write_bytes_fee),
            historical_fee), bandwidth_fee),
         events_fee>>

\* fees::compute_transaction_resource_fee: the non-refundable and the
\* refundable fee.  The instruction increment is 10000, the data increment
\* 1024, and 300 bytes of transaction result are added to the size of the
\* transaction with u32::saturating_add.
compute_transaction_resource_fee(tx_resources, fee_config) ==
    LET compute_fee == compute_fee_per_increment(
            tx_resources.instructions, fee_config.fee_per_instruction_increment,
            I64OfInt(10000))
        ledger_read_entry_fee == saturating_mul(
            fee_config.fee_per_disk_read_entry, tx_resources.disk_read_entries)
        ledger_write_entry_fee == saturating_mul(
            fee_config.fee_per_write_entry, tx_resources.write_entries)
        ledger_read_bytes_fee == compute_fee_per_increment(
            tx_resources.disk_read_bytes, fee_config.fee_per_disk_read_1kb,
            I64OfInt(1024))
        ledger_write_bytes_fee == compute_fee_per_increment(
            tx_resources.write_bytes, fee_config.fee_per_write_1kb, I64OfInt(1024))
        size_with_result == I64ExactAdd(tx_resources.transaction_size_bytes, I64OfInt(300))
        historical_fee == compute_fee_per_increment(
            IF I64Cmp(size_with_result, I64OfU32Max) > 0 THEN I64OfU32Max ELSE size_with_result,
            fee_config.fee_per_historical_1kb, I64OfInt(1024))
        events_fee == compute_fee_per_increment(
            tx_resources.contract_events_size_bytes,
            fee_config.fee_per_contract_event_1kb, I64OfInt(1024))
        bandwidth_fee == compute_fee_per_increment(
            tx_resources.transaction_size_bytes,
            fee_config.fee_per_transaction_size_1kb, I64OfInt(1024))
    IN <<saturating_add(saturating_add(saturating_add(saturating_add(saturating_add(
            saturating_add(compute_fee, ledger_read_entry_fee),
            ledger_write_entry_fee), ledger_read_bytes_fee), ledger_write_bytes_fee),
            historical_fee), bandwidth_fee),
         events_fee>>

\* The calls and the expected results of the tests
\* resource_fee_computation_with_single_resource and
\* resource_fee_computation.
ResourceFeeTests ==
    LET TransactionResources(instructions, disk_read_entries, write_entries, disk_read_bytes, write_bytes, contract_events_size_bytes, transaction_size_bytes) ==
            [instructions |-> instructions, disk_read_entries |-> disk_read_entries,
             write_entries |-> write_entries, disk_read_bytes |-> disk_read_bytes,
             write_bytes |-> write_bytes,
             contract_events_size_bytes |-> contract_events_size_bytes,
             transaction_size_bytes |-> transaction_size_bytes]
        FeeConfiguration(fee_per_instruction_increment, fee_per_disk_read_entry, fee_per_write_entry, fee_per_disk_read_1kb, fee_per_write_1kb, fee_per_historical_1kb, fee_per_contract_event_1kb, fee_per_transaction_size_1kb) ==
            [fee_per_instruction_increment |-> fee_per_instruction_increment,
             fee_per_disk_read_entry |-> fee_per_disk_read_entry,
             fee_per_write_entry |-> fee_per_write_entry,
             fee_per_disk_read_1kb |-> fee_per_disk_read_1kb,
             fee_per_write_1kb |-> fee_per_write_1kb,
             fee_per_historical_1kb |-> fee_per_historical_1kb,
             fee_per_contract_event_1kb |-> fee_per_contract_event_1kb,
             fee_per_transaction_size_1kb |-> fee_per_transaction_size_1kb]
    IN <<
    [tx_resources |-> TransactionResources(I64OfInt(1), I64OfInt(0), I64OfInt(0), I64OfInt(0), I64OfInt(0), I64OfInt(0), I64OfInt(0)),
     fee_config |-> FeeConfiguration(I64OfInt(1000), I64OfInt(2000), I64OfInt(3000), I64OfInt(4000), I64OfInt(5000), I64OfInt(6000), I64OfInt(7000), I64OfInt(8000)),
     expected |-> <<I64OfInt(1759), I64OfInt(0)>>],
    [tx_resources |-> TransactionResources(I64OfInt(10000), I64OfInt(0), I64OfInt(0), I64OfInt(0), I64OfInt(0), I64OfInt(0), I64OfInt(0)),
     fee_config |-> FeeConfiguration(I64OfInt(1000), I64OfInt(2000), I64OfInt(3000), I64OfInt(4000), I64OfInt(5000), I64OfInt(6000), I64OfInt(7000), I64OfInt(8000)),
     expected |-> <<I64OfInt(2758), I64OfInt(0)>>],
    [tx_resources |-> TransactionResources(I64OfInt(123451234), I64OfInt(0), I64OfInt(0), I64OfInt(0), I64OfInt(0), I64OfInt(0), I64OfInt(0)),
     fee_config |-> FeeConfiguration(I64OfInt(1000), I64OfInt(2000), I64OfInt(3000), I64OfInt(4000), I64OfInt(5000), I64OfInt(6000), I64OfInt(7000), I64OfInt(8000)),
     expected |-> <<I64OfInt(12346882), I64OfInt(0)>>],
    [tx_resources |-> TransactionResources(I64OfU32Max, I64OfInt(0), I64OfInt(0), I64OfInt(0), I64OfInt(0), I64OfInt(0), I64OfInt(0)),
     fee_config |-> FeeConfiguration(I64OfInt(1000), I64OfInt(2000), I64OfInt(3000), I64OfInt(4000), I64OfInt(5000), I64OfInt(6000), I64OfInt(7000), I64OfInt(8000)),
     expected |-> <<I64OfInt(429498488), I64OfInt(0)>>],
    [tx_resources |-> TransactionResources(I64OfInt(0), I64OfInt(1), I64OfInt(0), I64OfInt(0), I64OfInt(0), I64OfInt(0), I64OfInt(0)),
     fee_config |-> FeeConfiguration(I64OfInt(1000), I64OfInt(2000), I64OfInt(3000), I64OfInt(4000), I64OfInt(5000), I64OfInt(6000), I64OfInt(7000), I64OfInt(8000)),
     expected |-> <<I64OfInt(3758), I64OfInt(0)>>],
    [tx_resources |-> TransactionResources(I64OfInt(0), I64OfInt(5), I64OfInt(0), I64OfInt(0), I64OfInt(0), I64OfInt(0), I64OfInt(0)),
     fee_config |-> FeeConfiguration(I64OfInt(1000), I64OfInt(2000), I64OfInt(3000), I64OfInt(4000), I64OfInt(5000), I64OfInt(6000), I64OfInt(7000), I64OfInt(8000)),
     expected |-> <<I64OfInt(11758), I64OfInt(0)>>],
    [tx_resources |-> TransactionResources(I64OfInt(0), I64OfU32Max, I64OfInt(0), I64OfInt(0), I64OfInt(0), I64OfInt(0), I64OfInt(0)),
     fee_config |-> FeeConfiguration(I64OfInt(1000), I64OfInt(2000), I64OfInt(3000), I64OfInt(4000), I64OfInt(5000), I64OfInt(6000), I64OfInt(7000), I64OfInt(8000)),
     expected |-> <<I64OfGroups(<<8, 589, 934, 591, 758>>), I64OfInt(0)>>],
    [tx_resources |-> TransactionResources(I64OfInt(0), I64OfInt(0), I64OfInt(1), I64OfInt(0), I64OfInt(0), I64OfInt(0), I64OfInt(0)),
     fee_config |-> FeeConfiguration(I64OfInt(1000), I64OfInt(2000), I64OfInt(3000), I64OfInt(4000), I64OfInt(5000), I64OfInt(6000), I64OfInt(7000), I64OfInt(8000)),
     expected |-> <<I64OfInt(4758), I64OfInt(0)>>],
    [tx_resources |-> TransactionResources(I64OfInt(0), I64OfInt(0), I64OfInt(5), I64OfInt(0), I64OfInt(0), I64OfInt(0), I64OfInt(0)),
     fee_config |-> FeeConfiguration(I64OfInt(1000), I64OfInt(2000), I64OfInt(3000), I64OfInt(4000), I64OfInt(5000), I64OfInt(6000), I64OfInt(7000), I64OfInt(8000)),
     expected |-> <<I64OfInt(16758), I64OfInt(0)>>],
    [tx_resources |-> TransactionResources(I64OfInt(0), I64OfInt(1), I64OfInt(1), I64OfInt(0), I64OfInt(0), I64OfInt(0), I64OfInt(0)),
     fee_config |-> FeeConfiguration(I64OfInt(1000), I64OfInt(2000), I64OfInt(3000), I64OfInt(4000), I64OfInt(5000), I64OfInt(6000), I64OfInt(7000), I64OfInt(8000)),
     expected |-> <<I64OfInt(6758), I64OfInt(0)>>],
    [tx_resources |-> TransactionResources(I64OfInt(0), I64OfInt(0), I64OfU32Max, I64OfInt(0), I64OfInt(0), I64OfInt(0), I64OfInt(0)),
     fee_config |-> FeeConfiguration(I64OfInt(1000), I64OfInt(2000), I64OfInt(3000), I64OfInt(4000), I64OfInt(5000), I64OfInt(6000), I64OfInt(7000), I64OfInt(8000)),
     expected |-> <<I64OfGroups(<<12, 884, 901, 886, 758>>), I64OfInt(0)>>],
    [tx_resources |-> TransactionResources(I64OfInt(0), I64OfInt(0), I64OfInt(0), I64OfInt(1), I64OfInt(0), I64OfInt(0), I64OfInt(0)),
     fee_config |-> FeeConfiguration(I64OfInt(1000), I64OfInt(2000), I64OfInt(3000), I64OfInt(4000), I64OfInt(5000), I64OfInt(6000), I64OfInt(7000), I64OfInt(8000)),
     expected |-> <<I64OfInt(1762), I64OfInt(0)>>],
    [tx_resources |-> TransactionResources(I64OfInt(0), I64OfInt(0), I64OfInt(0), I64OfInt(5120), I64OfInt(0), I64OfInt(0), I64OfInt(0)),
     fee_config |-> FeeConfiguration(I64OfInt(1000), I64OfInt(2000), I64OfInt(3000), I64OfInt(4000), I64OfInt(5000), I64OfInt(6000), I64OfInt(7000), I64OfInt(8000)),
     expected |-> <<I64OfInt(21758), I64OfInt(0)>>],
    [tx_resources |-> TransactionResources(I64OfInt(0), I64OfInt(0), I64OfInt(0), I64OfInt(5121), I64OfInt(0), I64OfInt(0), I64OfInt(0)),
     fee_config |-> FeeConfiguration(I64OfInt(1000), I64OfInt(2000), I64OfInt(3000), I64OfInt(4000), I64OfInt(5000), I64OfInt(6000), I64OfInt(7000), I64OfInt(8000)),
     expected |-> <<I64OfInt(21762), I64OfInt(0)>>],
    [tx_resources |-> TransactionResources(I64OfInt(0), I64OfInt(0), I64OfInt(0), I64OfU32Max, I64OfInt(0), I64OfInt(0), I64OfInt(0)),
     fee_config |-> FeeConfiguration(I64OfInt(1000), I64OfInt(2000), I64OfInt(3000), I64OfInt(4000), I64OfInt(5000), I64OfInt(6000), I64OfInt(7000), I64OfInt(8000)),
     expected |-> <<I64OfGroups(<<16, 777, 217, 755>>), I64OfInt(0)>>],
    [tx_resources |-> TransactionResources(I64OfInt(0), I64OfInt(0), I64OfInt(0), I64OfInt(0), I64OfInt(1), I64OfInt(0), I64OfInt(0)),
     fee_config |-> FeeConfiguration(I64OfInt(1000), I64OfInt(2000), I64OfInt(3000), I64OfInt(4000), I64OfInt(5000), I64OfInt(6000), I64OfInt(7000), I64OfInt(8000)),
     expected |-> <<I64OfInt(1763), I64OfInt(0)>>],
    [tx_resources |-> TransactionResources(I64OfInt(0), I64OfInt(0), I64OfInt(0), I64OfInt(0), I64OfInt(5120), I64OfInt(0), I64OfInt(0)),
     fee_config |-> FeeConfiguration(I64OfInt(1000), I64OfInt(2000), I64OfInt(3000), I64OfInt(4000), I64OfInt(5000), I64OfInt(6000), I64OfInt(7000), I64OfInt(8000)),
     expected |-> <<I64OfInt(26758), I64OfInt(0)>>],
    [tx_resources |-> TransactionResources(I64OfInt(0), I64OfInt(0), I64OfInt(0), I64OfInt(0), I64OfInt(5121), I64OfInt(0), I64OfInt(0)),
     fee_config |-> FeeConfiguration(I64OfInt(1000), I64OfInt(2000), I64OfInt(3000), I64OfInt(4000), I64OfInt(5000), I64OfInt(6000), I64OfInt(7000), I64OfInt(8000)),
     expected |-> <<I64OfInt(26763), I64OfInt(0)>>],
    [tx_resources |-> TransactionResources(I64OfInt(0), I64OfInt(0), I64OfInt(0), I64OfInt(0), I64OfU32Max, I64OfInt(0), I64OfInt(0)),
     fee_config |-> FeeConfiguration(I64OfInt(1000), I64OfInt(2000), I64OfInt(3000), I64OfInt(4000), I64OfInt(5000), I64OfInt(6000), I64OfInt(7000), I64OfInt(8000)),
     expected |-> <<I64OfGroups(<<20, 971, 521, 754>>), I64OfInt(0)>>],
    [tx_resources |-> TransactionResources(I64OfInt(0), I64OfInt(0), I64OfInt(0), I64OfInt(0), I64OfInt(0), I64OfInt(0), I64OfInt(1)),
     fee_config |-> FeeConfiguration(I64OfInt(1000), I64OfInt(2000), I64OfInt(3000), I64OfInt(4000), I64OfInt(5000), I64OfInt(6000), I64OfInt(7000), I64OfInt(8000)),
     expected |-> <<I64OfInt(1772), I64OfInt(0)>>],
    [tx_resources |-> TransactionResources(I64OfInt(0), I64OfInt(0), I64OfInt(0), I64OfInt(0), I64OfInt(0), I64OfInt(0), I64OfInt(5120)),
     fee_config |-> FeeConfiguration(I64OfInt(1000), I64OfInt(2000), I64OfInt(3000), I64OfInt(4000), I64OfInt(5000), I64OfInt(6000), I64OfInt(7000), I64OfInt(8000)),
     expected |-> <<I64OfInt(71758), I64OfInt(0)>>],
    [tx_resources |-> TransactionResources(I64OfInt(0), I64OfInt(0), I64OfInt(0), I64OfInt(0), I64OfInt(0), I64OfInt(0), I64OfInt(5121)),
     fee_config |-> FeeConfiguration(I64OfInt(1000), I64OfInt(2000), I64OfInt(3000), I64OfInt(4000), I64OfInt(5000), I64OfInt(6000), I64OfInt(7000), I64OfInt(8000)),
     expected |-> <<I64OfInt(71772), I64OfInt(0)>>],
    [tx_resources |-> TransactionResources(I64OfInt(0), I64OfInt(0), I64OfInt(0), I64OfInt(0), I64OfInt(0), I64OfInt(0), I64OfU32Max),
     fee_config |-> FeeConfiguration(I64OfInt(1000), I64OfInt(2000), I64OfInt(3000), I64OfInt(4000), I64OfInt(5000), I64OfInt(6000), I64OfInt(7000), I64OfInt(8000)),
     expected |-> <<I64OfGroups(<<58, 720, 255, 988>>), I64OfInt(0)>>],
    [tx_resources |-> TransactionResources(I64OfInt(0), I64OfInt(0), I64OfInt(0), I64OfInt(0), I64OfInt(0), I64OfInt(1), I64OfInt(0)),
     fee_config |-> FeeConfiguration(I64OfInt(1000), I64OfInt(2000), I64OfInt(3000), I64OfInt(4000), I64OfInt(5000), I64OfInt(6000), I64OfInt(7000), I64OfInt(8000)),
     expected |-> <<I64OfInt(1758), I64OfInt(7)>>],
    [tx_resources |-> TransactionResources(I64OfInt(0), I64OfInt(0), I64OfInt(0), I64OfInt(0), I64OfInt(0), I64OfInt(5120), I64OfInt(0)),
     fee_config |-> FeeConfiguration(I64OfInt(1000), I64OfInt(2000), I64OfInt(3000), I64OfInt(4000), I64OfInt(5000), I64OfInt(6000), I64OfInt(7000), I64OfInt(8000)),
     expected |-> <<I64OfInt(1758), I64OfInt(35000)>>],
    [tx_resources |-> TransactionResources(I64OfInt(0), I64OfInt(0), I64OfInt(0), I64OfInt(0), I64OfInt(0), I64OfInt(5121), I64OfInt(0)),
     fee_config |-> FeeConfiguration(I64OfInt(1000), I64OfInt(2000), I64OfInt(3000), I64OfInt(4000), I64OfInt(5000), I64OfInt(6000), I64OfInt(7000), I64OfInt(8000)),
     expected |-> <<I64OfInt(1758), I64OfInt(35007)>>],
    [tx_resources |-> TransactionResources(I64OfInt(0), I64OfInt(0), I64OfInt(0), I64OfInt(0), I64OfInt(0), I64OfU32Max, I64OfInt(0)),
     fee_config |-> FeeConfiguration(I64OfInt(1000), I64OfInt(2000), I64OfInt(3000), I64OfInt(4000), I64OfInt(5000), I64OfInt(6000), I64OfInt(7000), I64OfInt(8000)),
     expected |-> <<I64OfInt(1758), I64OfGroups(<<29, 360, 127, 994>>)>>],
    [tx_resources |-> TransactionResources(I64OfInt(0), I64OfInt(0), I64OfInt(0), I64OfInt(0), I64OfInt(0), I64OfInt(0), I64OfInt(0)),
     fee_config |-> FeeConfiguration(I64OfInt(100), I64OfInt(100), I64OfInt(100), I64OfInt(100), I64OfInt(100), I64OfInt(100), I64OfInt(100), I64OfInt(100)),
     expected |-> <<I64OfInt(30), I64OfInt(0)>>],
    [tx_resources |-> TransactionResources(I64OfInt(1), I64OfInt(1), I64OfInt(1), I64OfInt(1), I64OfInt(1), I64OfInt(1), I64OfInt(1)),
     fee_config |-> FeeConfiguration(I64OfInt(100), I64OfInt(100), I64OfInt(100), I64OfInt(100), I64OfInt(100), I64OfInt(100), I64OfInt(100), I64OfInt(100)),
     expected |-> <<I64OfInt(234), I64OfInt(1)>>],
    [tx_resources |-> TransactionResources(I64OfInt(10123456), I64OfInt(30), I64OfInt(10), I64OfInt(25600), I64OfInt(10340), I64OfInt(321654), I64OfInt(35721)),
     fee_config |-> FeeConfiguration(I64OfInt(1000), I64OfInt(2000), I64OfInt(4000), I64OfInt(1500), I64OfInt(3000), I64OfInt(300), I64OfInt(200), I64OfInt(900)),
     expected |-> <<I64OfInt(1222089), I64OfInt(62824)>>],
    [tx_resources |-> TransactionResources(I64OfU32Max, I64OfU32Max, I64OfU32Max, I64OfU32Max, I64OfU32Max, I64OfU32Max, I64OfU32Max),
     fee_config |-> FeeConfiguration(I64_MAX, I64_MAX, I64_MAX, I64_MAX, I64_MAX, I64_MAX, I64_MAX, I64_MAX),
     expected |-> <<I64_MAX, I64OfGroups(<<9, 7, 199, 254, 740, 992>>)>>]
    >>

\* The calls of the tests, and the calls with every resource in
\* 0..MaxResource at the prices of
\* resource_fee_computation_with_single_resource.
ResourceFeeCalls ==
    {[fn |-> "compute_transaction_resource_fee",
      tx_resources |-> ResourceFeeTests[i].tx_resources,
      fee_config |-> ResourceFeeTests[i].fee_config] : i \in DOMAIN ResourceFeeTests}
    \cup [fn : {"compute_transaction_resource_fee"},
          tx_resources : [DOMAIN ResourceFeeTests[1].tx_resources
                            -> {I64OfInt(n) : n \in 0..MaxResource}],
          fee_config : {ResourceFeeTests[1].fee_config}]

\* compute_transaction_resource_fee called on its own.
CallComputeTransactionResourceFee ==
    /\ call.fn = "compute_transaction_resource_fee"
    /\ returned = None
    /\ returned' = Some(compute_transaction_resource_fee(call.tx_resources, call.fee_config))
    /\ UNCHANGED <<call, pipelineVars>>

(***************************************************************************)
(* The rent fee.                                                           *)
(***************************************************************************)
\* The rent of entry_size bytes for rent_ledgers ledgers, rounded up.
rent_fee_for_size_and_ledgers(is_persistent, entry_size, rent_ledgers, fee_config) ==
    LET num == saturating_mul(saturating_mul(entry_size, fee_config.fee_per_rent_1kb),
                              rent_ledgers)
        storage_coef == IF is_persistent
                        THEN fee_config.persistent_rent_rate_denominator
                        ELSE fee_config.temporary_rent_rate_denominator
        denom == saturating_mul(I64OfInt(1024), storage_coef)
    IN div_ceil(num, IF I64Cmp(denom, I64OfInt(1)) >= 0 THEN denom ELSE I64OfInt(1))

\* Variant of rent_fee_per_entry_change that charges the size increase up
\* to the new live-until ledger.
rent_fee_per_entry_change_to_new_live_until(entry_change, fee_config, current_ledger) ==
    LET new_size == I64OfInt(entry_change.new_size_bytes)
        ledger_before_extension ==
            Max(entry_change.old_live_until_ledger, Max(current_ledger - 1, 0))
        extension_fee ==
            IF entry_change.new_live_until_ledger > ledger_before_extension
            THEN rent_fee_for_size_and_ledgers(
                    entry_change.is_persistent, new_size,
                    I64OfInt(entry_change.new_live_until_ledger - ledger_before_extension),
                    fee_config)
            ELSE I64OfInt(0)
        prepaid_fee ==
            IF /\ entry_change.new_live_until_ledger >= current_ledger
               /\ entry_change.new_size_bytes > entry_change.old_size_bytes
            THEN rent_fee_for_size_and_ledgers(
                    entry_change.is_persistent,
                    I64OfInt(entry_change.new_size_bytes - entry_change.old_size_bytes),
                    I64OfInt(entry_change.new_live_until_ledger - current_ledger + 1),
                    fee_config)
            ELSE I64OfInt(0)
        fee == saturating_add(extension_fee, prepaid_fee)
    IN IF entry_change.is_code_entry THEN I64Div(fee, I64OfInt(3)) ELSE fee

\* The rent fee of one change: the rent of the new size for the ledgers the
\* entry is extended by, counted from the old live-until ledger or from the
\* ledger before the current one, and the rent of the size increase for the
\* ledgers from the current one to the old live-until ledger, which were
\* paid for at the old size; a third of it for a code entry.
rent_fee_per_entry_change(entry_change, fee_config, current_ledger) ==
    LET new_size == I64OfInt(entry_change.new_size_bytes)
        ledger_before_extension ==
            Max(entry_change.old_live_until_ledger, Max(current_ledger - 1, 0))
        extension_fee ==
            IF entry_change.new_live_until_ledger > ledger_before_extension
            THEN rent_fee_for_size_and_ledgers(
                    entry_change.is_persistent, new_size,
                    I64OfInt(entry_change.new_live_until_ledger - ledger_before_extension),
                    fee_config)
            ELSE I64OfInt(0)
        prepaid_fee ==
            IF /\ entry_change.old_live_until_ledger >= current_ledger
               /\ entry_change.new_size_bytes > entry_change.old_size_bytes
            THEN rent_fee_for_size_and_ledgers(
                    entry_change.is_persistent,
                    I64OfInt(entry_change.new_size_bytes - entry_change.old_size_bytes),
                    I64OfInt(entry_change.old_live_until_ledger - current_ledger + 1),
                    fee_config)
            ELSE I64OfInt(0)
        fee == saturating_add(extension_fee, prepaid_fee)
    IN IF entry_change.is_code_entry THEN I64Div(fee, I64OfInt(3)) ELSE fee

\* fees::compute_rent_fee: the rent fees of the changes and the fee for
\* writing the TTL entries of the extended ones, each of TTL_ENTRY_SIZE = 48
\* bytes.
compute_rent_fee(changed_entries, fee_config, current_ledger_seq) ==
    LET RECURSIVE RentOf(_)
        RentOf(n) ==
            IF n = 0 THEN I64OfInt(0)
            ELSE saturating_add(RentOf(n - 1),
                    rent_fee_per_entry_change(changed_entries[n], fee_config,
                                              current_ledger_seq))
        extended_entries == Cardinality({i \in DOMAIN changed_entries :
            changed_entries[i].old_live_until_ledger
                < changed_entries[i].new_live_until_ledger})
    IN saturating_add(
            saturating_add(RentOf(Len(changed_entries)),
                saturating_mul(fee_config.fee_per_write_entry, I64OfInt(extended_entries))),
            compute_fee_per_increment(I64OfInt(48 * extended_entries),
                                      fee_config.fee_per_write_1kb, I64OfInt(1024)))

\* The calls and the expected results of the tests
\* test_rent_extend_fees_with_only_extend,
\* test_rent_extend_fees_with_only_size_change,
\* test_rent_extend_with_size_change_and_extend and
\* test_rent_extend_without_old_entry.
RentFeeTests ==
    LET RentFeeConfiguration(fee_per_write_entry, fee_per_rent_1kb, fee_per_write_1kb, persistent_rent_rate_denominator, temporary_rent_rate_denominator) ==
            [fee_per_write_entry |-> I64OfInt(fee_per_write_entry),
             fee_per_rent_1kb |-> I64OfInt(fee_per_rent_1kb),
             fee_per_write_1kb |-> I64OfInt(fee_per_write_1kb),
             persistent_rent_rate_denominator |-> I64OfInt(persistent_rent_rate_denominator),
             temporary_rent_rate_denominator |-> I64OfInt(temporary_rent_rate_denominator)]
        ExtendConfig == RentFeeConfiguration(10, 1000, 500, 10000, 100000)
        SizeChangeConfig == RentFeeConfiguration(100, 1000, 500, 10000, 100000)
    IN <<
    [changed_entries |-> <<LedgerEntryRentChange(TRUE, FALSE, 1, 1, 100000, 300000)>>,
     fee_config |-> ExtendConfig, current_ledger_seq |-> 50000,
     expected |-> I64OfInt(54)],
    [changed_entries |-> <<LedgerEntryRentChange(TRUE, FALSE, 10240, 10240, 100000, 100001)>>,
     fee_config |-> ExtendConfig, current_ledger_seq |-> 50000,
     expected |-> I64OfInt(35)],
    [changed_entries |-> <<LedgerEntryRentChange(TRUE, FALSE, 1, 1, 100000, 100001)>>,
     fee_config |-> ExtendConfig, current_ledger_seq |-> 50000,
     expected |-> I64OfInt(35)],
    [changed_entries |-> <<LedgerEntryRentChange(TRUE, FALSE, 10240, 10240, 100000, 300000)>>,
     fee_config |-> ExtendConfig, current_ledger_seq |-> 50000,
     expected |-> I64OfInt(200034)],
    [changed_entries |-> <<LedgerEntryRentChange(TRUE, TRUE, 10240, 10240, 100000, 300000)>>,
     fee_config |-> ExtendConfig, current_ledger_seq |-> 50000,
     expected |-> I64OfInt(66700)],
    [changed_entries |-> <<LedgerEntryRentChange(TRUE, FALSE, 10240, 5120, 100000, 300000)>>,
     fee_config |-> ExtendConfig, current_ledger_seq |-> 50000,
     expected |-> I64OfInt(100034)],
    [changed_entries |-> <<LedgerEntryRentChange(FALSE, FALSE, 10240, 10240, 100000, 300000)>>,
     fee_config |-> ExtendConfig, current_ledger_seq |-> 50000,
     expected |-> I64OfInt(20034)],
    [changed_entries |-> <<LedgerEntryRentChange(FALSE, FALSE, 10240, 10240, 100000, 300000),
                          LedgerEntryRentChange(TRUE, FALSE, 10240, 10240, 100000, 300000),
                          LedgerEntryRentChange(TRUE, TRUE, 10240, 10240, 100000, 300000),
                          LedgerEntryRentChange(TRUE, FALSE, 1, 1, 100000, 100001),
                          LedgerEntryRentChange(TRUE, FALSE, 1, 1, 100000, 300000),
                          LedgerEntryRentChange(TRUE, FALSE, 10240, 10240, 100000, 300000),
                          LedgerEntryRentChange(FALSE, FALSE, 10240, 10240, 100000, 300000)>>,
     fee_config |-> ExtendConfig, current_ledger_seq |-> 50000,
     expected |-> I64OfInt(506922)],
    [changed_entries |-> <<LedgerEntryRentChange(TRUE, FALSE, 1, 100000, 100000, 100000)>>,
     fee_config |-> SizeChangeConfig, current_ledger_seq |-> 25000,
     expected |-> I64OfInt(732425)],
    [changed_entries |-> <<LedgerEntryRentChange(TRUE, TRUE, 1, 100000, 100000, 100000)>>,
     fee_config |-> SizeChangeConfig, current_ledger_seq |-> 25000,
     expected |-> I64OfInt(244141)],
    [changed_entries |-> <<LedgerEntryRentChange(FALSE, FALSE, 1, 100000, 100000, 100000)>>,
     fee_config |-> SizeChangeConfig, current_ledger_seq |-> 25000,
     expected |-> I64OfInt(73243)],
    [changed_entries |-> <<LedgerEntryRentChange(TRUE, FALSE, 99999, 100000, 100000, 100000)>>,
     fee_config |-> SizeChangeConfig, current_ledger_seq |-> 25000,
     expected |-> I64OfInt(8)],
    [changed_entries |-> <<LedgerEntryRentChange(TRUE, FALSE, 1, 100000, 100000, 100000)>>,
     fee_config |-> SizeChangeConfig, current_ledger_seq |-> 99999,
     expected |-> I64OfInt(20)],
    [changed_entries |-> <<LedgerEntryRentChange(TRUE, FALSE, 1, 100000, 100000, 100000),
                          LedgerEntryRentChange(TRUE, TRUE, 1, 100000, 100000, 100000),
                          LedgerEntryRentChange(FALSE, FALSE, 1, 100000, 100000, 100000)>>,
     fee_config |-> SizeChangeConfig, current_ledger_seq |-> 25000,
     expected |-> I64OfInt(1049809)],
    [changed_entries |-> <<LedgerEntryRentChange(TRUE, FALSE, 1, 100000, 100000, 300000)>>,
     fee_config |-> ExtendConfig, current_ledger_seq |-> 25000,
     expected |-> I64OfInt(2685584)],
    [changed_entries |-> <<LedgerEntryRentChange(TRUE, TRUE, 1, 100000, 100000, 300000)>>,
     fee_config |-> ExtendConfig, current_ledger_seq |-> 25000,
     expected |-> I64OfInt(895217)],
    [changed_entries |-> <<LedgerEntryRentChange(FALSE, FALSE, 1, 100000, 100000, 300000)>>,
     fee_config |-> ExtendConfig, current_ledger_seq |-> 25000,
     expected |-> I64OfInt(268590)],
    [changed_entries |-> <<LedgerEntryRentChange(TRUE, FALSE, 1, 100000, 100000, 300000),
                          LedgerEntryRentChange(TRUE, TRUE, 1, 100000, 100000, 300000),
                          LedgerEntryRentChange(FALSE, FALSE, 1, 100000, 100000, 300000)>>,
     fee_config |-> ExtendConfig, current_ledger_seq |-> 25000,
     expected |-> I64OfInt(3849390)],
    [changed_entries |-> <<LedgerEntryRentChange(TRUE, FALSE, 1, 2, 100000, 100001)>>,
     fee_config |-> ExtendConfig, current_ledger_seq |-> 99999,
     expected |-> I64OfInt(36)],
    [changed_entries |-> <<LedgerEntryRentChange(TRUE, FALSE, 0, 100000, 0, 100000)>>,
     fee_config |-> ExtendConfig, current_ledger_seq |-> 25000,
     expected |-> I64OfInt(732466)],
    [changed_entries |-> <<LedgerEntryRentChange(FALSE, FALSE, 0, 100000, 0, 100000)>>,
     fee_config |-> ExtendConfig, current_ledger_seq |-> 25000,
     expected |-> I64OfInt(73278)]
    >>

\* The calls of the tests, and the calls with one change of sizes up to
\* MaxRentSize KB and live-until ledgers around the current ledger.
RentFeeCalls ==
    {[fn |-> "compute_rent_fee",
      changed_entries |-> RentFeeTests[i].changed_entries,
      fee_config |-> RentFeeTests[i].fee_config,
      current_ledger_seq |-> RentFeeTests[i].current_ledger_seq] : i \in DOMAIN RentFeeTests}
    \cup {[fn |-> "compute_rent_fee",
           changed_entries |-> <<LedgerEntryRentChange(p, c, 1024 * os, 1024 * ns, ol, nl)>>,
           fee_config |-> RentFeeTests[1].fee_config,
           current_ledger_seq |-> SequenceNumber] :
            p \in BOOLEAN, c \in BOOLEAN, os \in 0..MaxRentSize, ns \in 1..MaxRentSize,
            ol \in {0} \cup OldLiveUntils, nl \in NewLiveUntils}

\* compute_rent_fee called on its own.
CallComputeRentFee ==
    /\ call.fn = "compute_rent_fee"
    /\ returned = None
    /\ returned' = Some(compute_rent_fee(call.changed_entries, call.fee_config,
                                         call.current_ledger_seq))
    /\ UNCHANGED <<call, pipelineVars>>

(***************************************************************************)
(* The rent write fee.                                                     *)
(***************************************************************************)
MINIMUM_RENT_WRITE_FEE_PER_1KB == I64OfInt(1000)

RentWriteFeeConfiguration(state_target_size_bytes, rent_fee_1kb_state_size_low, rent_fee_1kb_state_size_high, state_size_rent_fee_growth_factor) ==
    [state_target_size_bytes |-> state_target_size_bytes,
     rent_fee_1kb_state_size_low |-> rent_fee_1kb_state_size_low,
     rent_fee_1kb_state_size_high |-> rent_fee_1kb_state_size_high,
     state_size_rent_fee_growth_factor |-> state_size_rent_fee_growth_factor]

\* Variant of compute_rent_write_fee_per_1kb without the minimum.
compute_rent_write_fee_per_1kb_unclamped(soroban_state_size_bytes, fee_config) ==
    LET fee_rate_multiplier == saturating_sub(fee_config.rent_fee_1kb_state_size_high,
                                              fee_config.rent_fee_1kb_state_size_low)
        target == IF I64Cmp(fee_config.state_target_size_bytes, I64OfInt(1)) >= 0
                  THEN fee_config.state_target_size_bytes ELSE I64OfInt(1)
        Times(x, y) == I64(x.sign * y.sign, MagMul(x.mag, y.mag))
        below_target ==
            saturating_add(
                I64Saturate(div_ceil(Times(fee_rate_multiplier, soroban_state_size_bytes),
                                     target)),
                fee_config.rent_fee_1kb_state_size_low)
        above_target ==
            saturating_add(
                fee_config.rent_fee_1kb_state_size_high,
                I64Saturate(div_ceil(
                    Times(Times(fee_rate_multiplier,
                                saturating_sub(soroban_state_size_bytes,
                                               fee_config.state_target_size_bytes)),
                          I64OfInt(fee_config.state_size_rent_fee_growth_factor)),
                    target)))
        rent_write_fee_per_1kb ==
            IF I64Cmp(soroban_state_size_bytes, fee_config.state_target_size_bytes) < 0
            THEN below_target ELSE above_target
    IN rent_write_fee_per_1kb

\* fees::compute_rent_write_fee_per_1kb: below the target the fee goes
\* linearly from the low to the high fee; from the target on it is the high
\* fee plus growth_factor times the slope; never below the minimum.  The
\* products are exact and the quotients are saturated to i64: the test
\* with the large state expects the value of a product above i64::MAX.
compute_rent_write_fee_per_1kb(soroban_state_size_bytes, fee_config) ==
    LET fee_rate_multiplier == saturating_sub(fee_config.rent_fee_1kb_state_size_high,
                                              fee_config.rent_fee_1kb_state_size_low)
        target == IF I64Cmp(fee_config.state_target_size_bytes, I64OfInt(1)) >= 0
                  THEN fee_config.state_target_size_bytes ELSE I64OfInt(1)
        Times(x, y) == I64(x.sign * y.sign, MagMul(x.mag, y.mag))
        below_target ==
            saturating_add(
                I64Saturate(div_ceil(Times(fee_rate_multiplier, soroban_state_size_bytes),
                                     target)),
                fee_config.rent_fee_1kb_state_size_low)
        above_target ==
            saturating_add(
                fee_config.rent_fee_1kb_state_size_high,
                I64Saturate(div_ceil(
                    Times(Times(fee_rate_multiplier,
                                saturating_sub(soroban_state_size_bytes,
                                               fee_config.state_target_size_bytes)),
                          I64OfInt(fee_config.state_size_rent_fee_growth_factor)),
                    target)))
        rent_write_fee_per_1kb ==
            IF I64Cmp(soroban_state_size_bytes, fee_config.state_target_size_bytes) < 0
            THEN below_target ELSE above_target
    IN IF I64Cmp(rent_write_fee_per_1kb, MINIMUM_RENT_WRITE_FEE_PER_1KB) >= 0
       THEN rent_write_fee_per_1kb ELSE MINIMUM_RENT_WRITE_FEE_PER_1KB

\* The calls and the expected results of the tests
\* test_compute_rent_write_fee, test_compute_write_fee_with_negative_low and
\* test_compute_write_fee_clamp_after_target.
RentWriteFeeTests ==
    <<
    [soroban_state_size_bytes |-> I64OfInt(0),
     fee_config |-> RentWriteFeeConfiguration(I64OfInt(100000), I64OfInt(100), I64OfInt(10000), 50),
     expected |-> I64OfInt(1000)],
    [soroban_state_size_bytes |-> I64OfInt(50000),
     fee_config |-> RentWriteFeeConfiguration(I64OfInt(100000), I64OfInt(100), I64OfInt(10000), 50),
     expected |-> I64OfInt(5050)],
    [soroban_state_size_bytes |-> I64OfInt(56789),
     fee_config |-> RentWriteFeeConfiguration(I64OfInt(100000), I64OfInt(100), I64OfInt(10000), 50),
     expected |-> I64OfInt(5723)],
    [soroban_state_size_bytes |-> I64OfInt(100000),
     fee_config |-> RentWriteFeeConfiguration(I64OfInt(100000), I64OfInt(100), I64OfInt(10000), 50),
     expected |-> I64OfInt(10000)],
    [soroban_state_size_bytes |-> I64OfInt(150000),
     fee_config |-> RentWriteFeeConfiguration(I64OfInt(100000), I64OfInt(100), I64OfInt(10000), 50),
     expected |-> I64OfInt(257500)],
    [soroban_state_size_bytes |-> I64OfInt(580000),
     fee_config |-> RentWriteFeeConfiguration(I64OfInt(100000), I64OfInt(100), I64OfInt(10000), 50),
     expected |-> I64OfInt(2386000)],
    [soroban_state_size_bytes |-> I64OfGroups(<<50, 0, 0, 0, 0>>),
     fee_config |-> RentWriteFeeConfiguration(I64OfGroups(<<100, 0, 0, 0, 0>>), I64OfInt(1000000), I64OfInt(1000000000), 50),
     expected |-> I64OfInt(500500000)],
    [soroban_state_size_bytes |-> I64OfGroups(<<150, 0, 0, 0, 0>>),
     fee_config |-> RentWriteFeeConfiguration(I64OfGroups(<<100, 0, 0, 0, 0>>), I64OfInt(1000000), I64OfInt(1000000000), 50),
     expected |-> I64OfGroups(<<25, 975, 0, 0>>)],
    [soroban_state_size_bytes |-> I64OfInt(18181),
     fee_config |-> RentWriteFeeConfiguration(I64OfInt(100000), I64OfInt(-1000), I64OfInt(10000), 50),
     expected |-> I64OfInt(1000)],
    [soroban_state_size_bytes |-> I64OfInt(18182),
     fee_config |-> RentWriteFeeConfiguration(I64OfInt(100000), I64OfInt(-1000), I64OfInt(10000), 50),
     expected |-> I64OfInt(1001)],
    [soroban_state_size_bytes |-> I64OfInt(150000),
     fee_config |-> RentWriteFeeConfiguration(I64OfInt(100000), I64OfInt(-1000), I64OfInt(10000), 50),
     expected |-> I64OfInt(285000)],
    [soroban_state_size_bytes |-> I64OfInt(100001),
     fee_config |-> RentWriteFeeConfiguration(I64OfInt(100000), I64OfInt(10), I64OfInt(20), 50),
     expected |-> I64OfInt(1000)]
    >>

\* The calls of the tests, and the calls with a state of up to MaxStateSize
\* bytes at small targets, with low fees below, between and above the high
\* fees.
RentWriteFeeCalls ==
    {[fn |-> "compute_rent_write_fee_per_1kb",
      soroban_state_size_bytes |-> RentWriteFeeTests[i].soroban_state_size_bytes,
      fee_config |-> RentWriteFeeTests[i].fee_config] : i \in DOMAIN RentWriteFeeTests}
    \cup {[fn |-> "compute_rent_write_fee_per_1kb",
           soroban_state_size_bytes |-> I64OfInt(size),
           fee_config |-> RentWriteFeeConfiguration(
                I64OfInt(target), I64OfInt(low), I64OfInt(high), growth)] :
            size \in 0..MaxStateSize, target \in {1, MaxStateSize - 1},
            low \in {-1000, 500, 2000, 5000}, high \in {10, 2000, 4000},
            growth \in {0, 1, 50}}

\* compute_rent_write_fee_per_1kb called on its own.
CallComputeRentWriteFee ==
    /\ call.fn = "compute_rent_write_fee_per_1kb"
    /\ returned = None
    /\ returned' = Some(compute_rent_write_fee_per_1kb(call.soroban_state_size_bytes,
                                                       call.fee_config))
    /\ UNCHANGED <<call, pipelineVars>>

InitFees ==
    /\ call \in ResourceFeeCalls \cup RentFeeCalls \cup RentWriteFeeCalls
    /\ returned = None
    /\ InitIdle

NextFees ==
    \/ CallComputeTransactionResourceFee
    \/ CallComputeRentFee
    \/ CallComputeRentWriteFee

SpecFees == InitFees /\ [][NextFees]_vars

Init == InitEnforcing \/ InitRecording

Next ==
    \/ BuildRestoredKeySet
    \/ BuildStorageFootprint
    \/ BuildStorageMap
    \/ HostSetup
    \/ InvokeFunction
    \/ Finish
    \/ EncodeInvokeResult
    \/ GetLedgerChanges
    \/ EncodeContractEvents
    \/ RecHostSetup
    \/ RecInvokeFunction
    \/ RecMeasureResult
    \/ RecAuth
    \/ RecWalkFootprint
    \/ RecFinish
    \/ RecLedgerChanges
    \/ RecResources
    \/ invoke_host_function_using_simulation

Spec == Init /\ [][Next]_vars

(***************************************************************************)
(* The host session of both pipelines: calls with and without diagnostics, *)
(* trace hook and module cache, in either authorization mode, over         *)
(* footprints of at most SessionFootprint keys.                            *)
(***************************************************************************)
\* A diagnostic event the caller's vector holds before the call.
EarlierDiagnosticEvent ==
    [in_successful_contract_call |-> TRUE, event |-> [type_ |-> "Diagnostic"]]

InitSession ==
    /\ enable_diagnostics \in BOOLEAN
    /\ diagnostic_events \in {<<>>, <<EarlierDiagnosticEvent>>}
    /\ \/ /\ mode = "enforcing"
          /\ recording_mode_feature \in BOOLEAN
          /\ EnforcingInputs(SessionFootprint)
          /\ trace_hook \in BOOLEAN
          /\ module_cache \in BOOLEAN
          /\ auth_mode = "Enforcing"
       \/ /\ mode = "recording"
          /\ recording_mode_feature = TRUE
          /\ RecordingInputs(SessionFootprint)
          /\ trace_hook = FALSE
          /\ module_cache = FALSE
          /\ auth_mode \in {"Enforcing", "Recording"}
    /\ InitCommon
    /\ call = NoCall
    /\ returned = None

SpecSession == InitSession /\ [][Next]_vars

(***************************************************************************)
(* The authorization entries a recording run returns.                      *)
(***************************************************************************)
EMULATED_SIGNATURE_SIZE == 512

AuthInternal == "Auth/InternalError"

\* ScVal::Void and ScVal::Bytes
ScValVoid == [type |-> "Void", bytes |-> <<>>]
ScValBytes(b) == [type |-> "Bytes", bytes |-> b]

RecordedAuthPayload(address, nonce, invocation) ==
    [address |-> address, nonce |-> nonce, invocation |-> invocation]

SorobanAddressCredentials(address, nonce, signature_expiration_ledger, signature) ==
    [type |-> "Address", address |-> address, nonce |-> nonce,
     signature_expiration_ledger |-> signature_expiration_ledger,
     signature |-> signature]

SourceAccountCredentials == [type |-> "SourceAccount"]

SorobanAuthorizationEntry(credentials, root_invocation) ==
    [credentials |-> credentials, root_invocation |-> root_invocation]

\* RecordedAuthPayload::into_auth_entry_with_emulated_signature
into_auth_entry_with_emulated_signature(self) ==
    IF IsSome(self.address) /\ IsSome(self.nonce)
    THEN Ok(SorobanAuthorizationEntry(
                SorobanAddressCredentials(
                    Unwrap(self.address), Unwrap(self.nonce), 0,
                    ScValBytes([i \in 1..EMULATED_SIGNATURE_SIZE |-> 0])),
                self.invocation))
    ELSE IF ~IsSome(self.address) /\ ~IsSome(self.nonce)
    THEN Ok(SorobanAuthorizationEntry(SourceAccountCredentials, self.invocation))
    ELSE Err(AuthInternal)

\* Variant of clear_signature that leaves the signature in place.
clear_signature_keeps_signature(auth_entry) == auth_entry

\* clear_signature
clear_signature(auth_entry) ==
    IF auth_entry.credentials.type = "Address"
    THEN [auth_entry EXCEPT !.credentials.signature = ScValVoid]
    ELSE auth_entry

\* invoke_host_function_in_recording_mode, from output_auth to the loop over
\* clear_signature: the entries returned as auth and the entries the host
\* holds afterwards.  recorded_auth is what
\* host.get_recorded_auth_payloads returns; collect stops at the first
\* payload that cannot be converted.
RecordingOutputAuth(mode_of_auth, recorded_auth) ==
    IF mode_of_auth.type = "Enforcing"
    THEN [err |-> "", auth |-> mode_of_auth.auth_entries,
          host_auth |-> mode_of_auth.auth_entries]
    ELSE LET converted == [i \in DOMAIN recorded_auth |->
                                into_auth_entry_with_emulated_signature(recorded_auth[i])]
         IN IF \E i \in DOMAIN converted : converted[i].tag = "Err"
            THEN [err |-> converted[CHOOSE i \in DOMAIN converted :
                                        /\ converted[i].tag = "Err"
                                        /\ \A j \in 1..(i - 1) : converted[j].tag = "Ok"].err,
                  auth |-> <<>>, host_auth |-> <<>>]
            ELSE [err |-> "",
                  auth |-> [i \in DOMAIN converted |-> clear_signature(converted[i].val)],
                  host_auth |-> [i \in DOMAIN converted |-> converted[i].val]]

\* The payloads a recording host can hand out, well-formed or not, and the
\* signed entries a caller can supply.
RecordedAuthPayloads ==
    {RecordedAuthPayload(address, nonce, invocation) :
        address \in {None, Some(1)}, nonce \in {None, Some(MaxAuth)},
        invocation \in 1..MaxAuth}

SuppliedAuthEntries ==
    {SorobanAuthorizationEntry(credentials, invocation) :
        credentials \in {SourceAccountCredentials,
                         SorobanAddressCredentials(1, MaxAuth, SequenceNumber, ScValVoid),
                         SorobanAddressCredentials(1, MaxAuth, SequenceNumber,
                                                   ScValBytes(<<1, 2>>))},
        invocation \in 1..MaxAuth}

RecordingAuthCalls ==
    {[fn |-> "recording_output_auth", auth_mode |-> [type |-> "Recording"],
      recorded_auth |-> recorded] :
        recorded \in UNION {[1..n -> RecordedAuthPayloads] : n \in 0..MaxAuth}}
    \cup {[fn |-> "recording_output_auth",
           auth_mode |-> [type |-> "Enforcing", auth_entries |-> entries],
           recorded_auth |-> <<>>] :
            entries \in UNION {[1..n -> SuppliedAuthEntries] : n \in 0..MaxAuth}}

\* The authorization part of a recording run on its own.
CallRecordingOutputAuth ==
    /\ call.fn = "recording_output_auth"
    /\ returned = None
    /\ returned' = Some(RecordingOutputAuth(call.auth_mode, call.recorded_auth))
    /\ UNCHANGED <<call, pipelineVars>>

InitAuth ==
    /\ call \in RecordingAuthCalls
    /\ returned = None
    /\ InitIdle

SpecAuth == InitAuth /\ [][CallRecordingOutputAuth]_vars


(***************************************************************************)
(* Properties.                                                             *)
(***************************************************************************)
\* The keys of the input footprint, read-only and read-write together.
FootprintKeys ==
    SeqToSet(resources.footprint.read_only) \cup SeqToSet(resources.footprint.read_write)

\* The pipeline has returned a record.
ReturnedOk == pc = "done" /\ ret.tag = "Ok"

\* The enforcing pipeline has returned a record of a successful invocation.
EnforcingSuccess ==
    mode = "enforcing" /\ ReturnedOk /\ encoded_invoke_result.tag = "Ok"

ChangeIndices == DOMAIN ledger_changes
ChangeKey(i) == ReadXdrKey(ledger_changes[i].encoded_key)

\* C1: a successful enforcing invocation returns exactly one change record
\* for every key of the input footprint, touched or not, present or not.
C1_OneChangePerFootprintKey ==
    EnforcingSuccess =>
        /\ Len(ledger_changes) = Cardinality(FootprintKeys)
        /\ {ChangeKey(i) : i \in ChangeIndices} = FootprintKeys

\* A successful enforcing invocation over two keys or more, one of which has
\* no entry before and after the call.
C1_Witness ==
    /\ EnforcingSuccess
    /\ Cardinality(FootprintKeys) >= 2
    /\ \E k \in FootprintKeys : init_storage_map[k] = None /\ storage_map[k] = None

\* C2: in every returned change record that has a ttl_change, the new
\* live-until ledger is at least the old one.
C2_TtlNeverDecreases ==
    ReturnedOk =>
        \A i \in ChangeIndices :
            IsSome(ledger_changes[i].ttl_change) =>
                Unwrap(ledger_changes[i].ttl_change).new_live_until_ledger
                    >= Unwrap(ledger_changes[i].ttl_change).old_live_until_ledger

\* C3: when the host function fails with a user-caused error and no budget
\* charge of the pipeline fails, the pipeline returns a record that carries
\* the error and has no changes and no contract events; the recording
\* pipeline also reports no written bytes and no output size.
C3_UserErrorGivesEmptyRecord ==
    (/\ pc = "done"
     /\ invoke_result.tag = "Err"
     /\ invoke_result.err \in UserErrors
     /\ budget_exceeded_at = "none")
    => /\ ret.tag = "Ok"
       /\ ledger_changes = <<>>
       /\ mode = "enforcing" =>
            /\ encoded_invoke_result = invoke_result
            /\ encoded_contract_events = <<>>
       /\ mode = "recording" =>
            /\ contract_events = <<>>
            /\ resources.write_bytes = 0
            /\ contract_events_and_return_value_size = 0

\* A recording run over a non-empty footprint whose host function emitted
\* events and then failed with a user-caused error.
C3_Witness ==
    /\ mode = "recording"
    /\ pc = "done"
    /\ invoke_result.tag = "Err"
    /\ invoke_result.err \in UserErrors
    /\ budget_exceeded_at = "none"
    /\ events # <<>>
    /\ DOMAIN footprint # {}

\* The enforcing run replays a recording run and has returned.
ReplayDone ==
    /\ mode = "enforcing"
    /\ pc = "done"
    /\ IsSome(recording_result.output)
    /\ budget_exceeded_at = "none"

\* The enforcing run returned what the recording run reported.
SameAsRecorded ==
    LET rec == Unwrap(recording_result.output)
    IN /\ ret.tag = "Ok"
       /\ encoded_invoke_result =
            IF rec.invoke_result.tag = "Ok"
            THEN Ok(WriteXdrScVal(rec.invoke_result.val))
            ELSE rec.invoke_result
       /\ ledger_changes = rec.ledger_changes
       /\ encoded_contract_events =
            [i \in 1..Len(rec.contract_events) |-> WriteXdrEvent(rec.contract_events[i])]

NoExpiredFootprintEntry ==
    \A k \in FootprintKeys : ~SnapshotExpired(ledger_snapshot, k)

AutoRestored(k) == SnapshotExpired(ledger_snapshot, k) /\ is_persistent_key(k)

\* C5: the restored indices of a recording run point at the auto-restored
\* keys of the read-write footprint, and every such key is listed once.
C5_RestoredIndicesPointAtRestoredKeys ==
    (mode = "recording" /\ ReturnedOk) =>
        LET rw == resources.footprint.read_write
            ids == restored_rw_entry_indices
        IN /\ \A i \in DOMAIN ids :
                /\ ids[i] + 1 \in DOMAIN rw
                /\ AutoRestored(rw[ids[i] + 1])
           /\ \A j \in DOMAIN rw :
                AutoRestored(rw[j]) =>
                    Cardinality({i \in DOMAIN ids : ids[i] + 1 = j}) = 1

\* C6: the change record of a restored key has an old size of 0 and an old
\* live-until ledger of 0.
C6_RestoredOldStateIsZero ==
    (ReturnedOk /\ IsSome(restored_keys)) =>
        \A i \in ChangeIndices :
            ChangeKey(i) \in Unwrap(restored_keys) =>
                /\ ledger_changes[i].old_entry_size_bytes_for_rent = 0
                /\ IsSome(ledger_changes[i].ttl_change) =>
                        Unwrap(ledger_changes[i].ttl_change).old_live_until_ledger = 0

\* C7: the record of a ReadOnly key is read_only and has no new value; a
\* record has a new value only when its key is ReadWrite and has a final
\* entry.
C7_ReadOnlyHasNoNewValue ==
    ReturnedOk =>
        \A i \in ChangeIndices :
            LET k == ChangeKey(i)
                c == ledger_changes[i]
            IN /\ footprint[k] = "ReadOnly" => c.read_only /\ ~IsSome(c.encoded_new_value)
               /\ IsSome(c.encoded_new_value) =>
                    /\ footprint[k] = "ReadWrite"
                    /\ ~c.read_only
                    /\ k \in DOMAIN storage_map
                    /\ IsSome(storage_map[k])

\* The record of a ReadOnly key whose live-until ledger was increased.
C7_Witness ==
    /\ ReturnedOk
    /\ \E i \in ChangeIndices :
        /\ footprint[ChangeKey(i)] = "ReadOnly"
        /\ IsSome(ledger_changes[i].ttl_change)
        /\ Unwrap(ledger_changes[i].ttl_change).new_live_until_ledger
                > Unwrap(ledger_changes[i].ttl_change).old_live_until_ledger
        /\ Unwrap(ledger_changes[i].ttl_change).old_live_until_ledger > 0

\* A key is in both lists of the input footprint.
DuplicateKey ==
    SeqToSet(resources.footprint.read_only) \cap SeqToSet(resources.footprint.read_write) # {}

ExpiredEntrySupplied ==
    \E i \in DOMAIN encoded_ttl_entries :
        /\ encoded_ttl_entries[i] # <<>>
        /\ ReadXdrTtl(encoded_ttl_entries[i]).live_until_ledger_seq < SequenceNumber

\* C9: an enforcing run that is given an entry with a TTL below the current
\* ledger never gets to invoke the host function.
C9_ExpiredEntryRejected ==
    (mode = "enforcing" /\ ExpiredEntrySupplied) =>
        /\ invoke_result = Pending
        /\ pc \in {"start", "footprint", "storage_map", "done"}
        /\ pc = "done" => ret.tag = "Err"

\* C10: an enforcing run in which a budget charge failed returns the budget
\* error and no record, except when the charge failed inside the VM or in
\* the encoding of the return value: then it returns a record with the
\* budget error as its invoke result, no changes and no events.
C10_BudgetFailureGivesNoChanges ==
    (mode = "enforcing" /\ pc = "done" /\ budget_exceeded_at # "none") =>
        IF budget_exceeded_at \in {"invoke", "encode_result"}
        THEN /\ ret.tag = "Ok"
             /\ encoded_invoke_result = Err(BudgetExceeded)
             /\ ledger_changes = <<>>
             /\ encoded_contract_events = <<>>
        ELSE /\ ret = Err(BudgetExceeded)
             /\ ledger_changes = <<>>
             /\ encoded_contract_events = <<>>

\* The budget ran out in the event encoding of a successful invocation over
\* a non-empty footprint.
C10_Witness ==
    /\ mode = "enforcing"
    /\ pc = "done"
    /\ budget_exceeded_at = "encode_events"
    /\ invoke_result.tag = "Ok"
    /\ DOMAIN storage_map # {}

\* C11: the size for rent is at least the XDR size passed, and equals it if
\* and only if the entry is not a ContractCode entry.
C11_RentSizeEqualIffNotCode ==
    (call.fn = "entry_size_for_rent" /\ IsSome(returned) /\ Unwrap(returned).tag = "Ok") =>
        /\ Unwrap(returned).val >= call.entry_xdr_size
        /\ (Unwrap(returned).val = call.entry_xdr_size)
                <=> (KeyType(call.entry.key) # "ContractCode")

\* C11 as the code has it: the size for rent is at least the XDR size
\* passed; it is the XDR size for an entry that is not a ContractCode
\* entry, and for a ContractCode entry it is larger by the module memory
\* cost, or by what is left up to u32::MAX when that is less.
C11_RentSizeAtLeastXdrSize ==
    (call.fn = "entry_size_for_rent" /\ IsSome(returned) /\ Unwrap(returned).tag = "Ok") =>
        LET size == Unwrap(returned).val
            n == call.entry_xdr_size
        IN /\ size >= n
           /\ size <= U32_MAX
           /\ KeyType(call.entry.key) # "ContractCode" => size = n
           /\ KeyType(call.entry.key) = "ContractCode" =>
                    size - n = Min(wasm_module_memory_cost(call.entry), U32_MAX - n)

\* A ContractCode entry whose size for rent is its XDR size.
C11_Witness ==
    /\ call.fn = "entry_size_for_rent"
    /\ KeyType(call.entry.key) = "ContractCode"
    /\ call.entry_xdr_size = U32_MAX
    /\ call.entry.val > 0
    /\ returned = Some(Ok(U32_MAX))

DiagnosticRecords(evs) ==
    [i \in 1..Len(evs) |->
        [in_successful_contract_call |-> ~evs[i].failed_call,
         event |-> [type_ |-> evs[i].type_]]]

\* C13: in the enforcing pipeline the diagnostic events change in one place
\* only, after the invocation, whatever its result: with diagnostics
\* enabled one record per host event is appended in emission order, and
\* the record of an event of a failed call says so; with diagnostics
\* disabled nothing changes.
C13_DiagnosticEventsAppended ==
    [][(mode = "enforcing" /\ mode' = "enforcing") =>
            diagnostic_events' =
                IF pc = "finish" /\ pc' # "finish" /\ enable_diagnostics
                THEN diagnostic_events \o DiagnosticRecords(events)
                ELSE diagnostic_events]_vars

\* An enforcing run with diagnostics enabled whose invocation failed has
\* returned a record, and the caller's vector holds what it held before
\* and one record per host event.
C13_Witness ==
    /\ mode = "enforcing"
    /\ enable_diagnostics
    /\ pc = "done"
    /\ ret.tag = "Ok"
    /\ encoded_invoke_result.tag = "Err"
    /\ Len(events) = 3
    /\ diagnostic_events = <<EarlierDiagnosticEvent>> \o DiagnosticRecords(events)
    /\ ~diagnostic_events[3].in_successful_contract_call

\* C14: the change records of a successful enforcing invocation come in
\* ascending key order, whatever the order of the keys in the footprint
\* vectors and of the ledger entries supplied.
C14_ChangesInKeyOrder ==
    EnforcingSuccess =>
        /\ {ChangeKey(i) : i \in ChangeIndices} = FootprintKeys
        /\ \A i, j \in ChangeIndices : i < j => ChangeKey(i) < ChangeKey(j)

\* A successful enforcing invocation whose read-write keys and ledger
\* entries were both listed from the larger key down.
C14_Witness ==
    /\ EnforcingSuccess
    /\ Len(resources.footprint.read_write) = 2
    /\ resources.footprint.read_write[1] > resources.footprint.read_write[2]
    /\ Len(encoded_ledger_entries) = 2
    /\ ReadXdrEntry(encoded_ledger_entries[1]).key > ReadXdrEntry(encoded_ledger_entries[2]).key
    /\ Len(ledger_changes) = 2

\* The recording pipeline has returned the record of a successful
\* invocation.
RecordingSuccess ==
    mode = "recording" /\ ReturnedOk /\ invoke_result.tag = "Ok"

\* The change records start with one record for every key of the storage
\* map, in key order.
StorageBackedRecordsFirst ==
    /\ Len(ledger_changes) >= Cardinality(DOMAIN storage_map)
    /\ {ChangeKey(i) : i \in 1..Cardinality(DOMAIN storage_map)} = DOMAIN storage_map

\* Every record after those of the storage map is the minimal record of a
\* footprint key that is not in the storage map: its key and its read-only
\* flag, sizes 0, no new value and no ttl_change.
FootprintOnlyRecordsMinimal ==
    \A i \in ChangeIndices :
        i > Cardinality(DOMAIN storage_map) =>
            /\ ChangeKey(i) \in (DOMAIN footprint) \ (DOMAIN storage_map)
            /\ ledger_changes[i].read_only = (footprint[ChangeKey(i)] = "ReadOnly")
            /\ ledger_changes[i].old_entry_size_bytes_for_rent = 0
            /\ ledger_changes[i].new_entry_size_bytes_for_rent = 0
            /\ ledger_changes[i].encoded_new_value = None
            /\ ledger_changes[i].ttl_change = None
            /\ \A j \in ChangeIndices : j # i => ChangeKey(j) # ChangeKey(i)

\* Every key of the recorded footprint has a change record.
EveryFootprintKeyRecorded ==
    {ChangeKey(i) : i \in ChangeIndices} = DOMAIN footprint

WrittenLength(i) ==
    IF ~ledger_changes[i].read_only /\ IsSome(ledger_changes[i].encoded_new_value)
    THEN Len(Unwrap(ledger_changes[i].encoded_new_value))
    ELSE 0

\* C16: the write_bytes a recording run returns is the sum, saturating at
\* u32::MAX, of the encoded lengths of the new values of the records that
\* are not read-only, and 0 when the invocation failed.
C16_WriteBytesIsEncodedLength ==
    (mode = "recording" /\ ReturnedOk) =>
        /\ resources.write_bytes =
                Min(SumSeq([i \in 1..Len(ledger_changes) |-> WrittenLength(i)]), U32_MAX)
        /\ invoke_result.tag = "Err" => resources.write_bytes = 0

\* A recording run that wrote a ContractCode entry, whose size for rent is
\* not its encoded length, next to a record that is not a write.
C16_Witness ==
    /\ RecordingSuccess
    /\ resources.write_bytes > 0
    /\ \E i \in ChangeIndices :
            /\ WrittenLength(i) > 0
            /\ ledger_changes[i].new_entry_size_bytes_for_rent # WrittenLength(i)
    /\ \E i \in ChangeIndices : WrittenLength(i) = 0

\* What the entry of footprint key k in the ledger state adds to the disk
\* read bytes: its encoded size when it is not a ContractData or
\* ContractCode entry, or when it is a persistent entry whose live-until
\* ledger is below the current ledger; else 0.
DiskReadSize(k) ==
    LET e == ledger_snapshot[k]
    IN IF /\ IsSome(e)
          /\ \/ KeyType(k) \notin {"ContractData", "ContractCode"}
             \/ /\ get_key_durability(k) = Some("Persistent")
                /\ IsSome(Unwrap(e).live_until)
                /\ Unwrap(Unwrap(e).live_until) < SequenceNumber
       THEN Len(WriteXdrEntry(Unwrap(e).entry))
       ELSE 0

\* C17: the disk_read_bytes a recording run returns is the sum, saturating
\* at u32::MAX, of the encoded sizes of the entries of the footprint keys
\* that are not Soroban entries or are auto-restored persistent entries.
C17_DiskReadBytes ==
    (mode = "recording" /\ ReturnedOk) =>
        LET keys == SortedSeq(DOMAIN footprint)
        IN resources.disk_read_bytes =
                Min(SumSeq([i \in 1..Len(keys) |-> DiskReadSize(keys[i])]), U32_MAX)

\* A recording run over an auto-restored persistent entry and an expired
\* temporary entry.
C17_Witness ==
    /\ mode = "recording"
    /\ ReturnedOk
    /\ \E k \in DOMAIN footprint : AutoRestored(k) /\ DiskReadSize(k) > 0
    /\ \E k \in DOMAIN footprint :
            SnapshotExpired(ledger_snapshot, k) /\ ~is_persistent_key(k)
    /\ resources.disk_read_bytes > 0

\* Change i of the list passed to extract_rent_changes has a ttl_change and
\* is extended or grows, where a change without a new value keeps its size.
RentRelevant(i) ==
    LET c == call.ledger_changes[i]
    IN /\ c.ttl_change # None
       /\ \/ c.ttl_change[1].new_live_until_ledger > c.ttl_change[1].old_live_until_ledger
          \/ /\ c.encoded_new_value # None
             /\ c.new_entry_size_bytes_for_rent > c.old_entry_size_bytes_for_rent

\* The number of changes up to change i that are relevant for rent.
RentRelevantUpTo(i) == Cardinality({j \in 1..i : RentRelevant(j)})

\* C18: extract_rent_changes returns one rent change for every change that
\* has a ttl_change and is extended or grows, in the order of the input, and
\* nothing for any other change.
C18_RentChangesOfRelevantChanges ==
    (call.fn = "extract_rent_changes" /\ IsSome(returned)) =>
        LET out == Unwrap(returned).val
            changes == call.ledger_changes
        IN /\ Len(out) = RentRelevantUpTo(Len(changes))
           /\ \A i \in 1..Len(changes) :
                RentRelevant(i) =>
                    LET c == changes[i]
                        r == out[RentRelevantUpTo(i)]
                    IN /\ r.old_size_bytes = c.old_entry_size_bytes_for_rent
                       /\ r.new_size_bytes =
                            IF c.encoded_new_value # None
                            THEN c.new_entry_size_bytes_for_rent
                            ELSE c.old_entry_size_bytes_for_rent
                       /\ r.old_live_until_ledger = c.ttl_change[1].old_live_until_ledger
                       /\ r.new_live_until_ledger = c.ttl_change[1].new_live_until_ledger
                       /\ r.is_persistent = (c.ttl_change[1].durability = "Persistent")
                       /\ r.is_code_entry = (c.ttl_change[1].entry_type = "ContractCode")

\* extract_rent_changes has dropped a change whose size for rent shrinks
\* and kept, after it, an extended change that has no new value but a
\* larger new size for rent.
C18_Witness ==
    /\ call.fn = "extract_rent_changes"
    /\ IsSome(returned)
    /\ Len(call.ledger_changes) = 2
    /\ ~RentRelevant(1)
    /\ call.ledger_changes[1].ttl_change # None
    /\ call.ledger_changes[1].encoded_new_value # None
    /\ call.ledger_changes[1].new_entry_size_bytes_for_rent
            < call.ledger_changes[1].old_entry_size_bytes_for_rent
    /\ RentRelevant(2)
    /\ call.ledger_changes[2].encoded_new_value = None
    /\ call.ledger_changes[2].new_entry_size_bytes_for_rent
            > call.ledger_changes[2].old_entry_size_bytes_for_rent
    /\ Len(Unwrap(returned).val) = 1
    /\ Unwrap(returned).val[1].new_size_bytes = Unwrap(returned).val[1].old_size_bytes

\* Key k of a call of simulate_extend_ttl_op_resources has an entry whose
\* live-until ledger is below current_ledger + extend_to.
NeedsExtension(k) ==
    /\ IsSome(call.snapshot[k])
    /\ Unwrap(Unwrap(call.snapshot[k]).live_until) - SequenceNumber < call.extend_to

\* Key k needs an extension and its entry has expired.
ExpiredForExtension(k) ==
    /\ NeedsExtension(k)
    /\ Unwrap(Unwrap(call.snapshot[k]).live_until) < SequenceNumber

\* The number of keys up to position i that need an extension.
NeedExtensionUpTo(i) ==
    Cardinality({j \in 1..i : NeedsExtension(call.keys_to_extend[j])})

\* What simulate_extend_ttl_op_resources is to return for the keys passed.
ExtendTtlResult(res) ==
    LET keys == call.keys_to_extend
    IN IF \E i \in DOMAIN keys : ~IsSome(get_key_durability(keys[i]))
       THEN res.tag # "Ok"
       ELSE IF \E i \in DOMAIN keys : ExpiredForExtension(keys[i])
       THEN res.tag # "Ok"
       ELSE /\ res.tag = "Ok"
            /\ LET read_only == res.val.resources.footprint.read_only
                   rent_changes == res.val.rent_changes
               IN /\ res.val.resources.footprint.read_write = <<>>
                  /\ Len(read_only) = NeedExtensionUpTo(Len(keys))
                  /\ \A i \in 1..(Len(read_only) - 1) : read_only[i] <= read_only[i + 1]
                  /\ \A k \in SimulationKeys :
                        Cardinality({i \in DOMAIN read_only : read_only[i] = k})
                            = Cardinality({i \in DOMAIN keys :
                                            keys[i] = k /\ NeedsExtension(k)})
                  /\ Len(rent_changes) = NeedExtensionUpTo(Len(keys))
                  /\ \A i \in DOMAIN keys :
                        NeedsExtension(keys[i]) =>
                            LET r == rent_changes[NeedExtensionUpTo(i)]
                            IN /\ r.old_size_bytes = r.new_size_bytes
                               /\ r.old_live_until_ledger
                                    = Unwrap(Unwrap(call.snapshot[keys[i]]).live_until)
                               /\ r.new_live_until_ledger - SequenceNumber = call.extend_to

\* C19: simulate_extend_ttl_op_resources fails when a key has no durability
\* or when a key that needs an extension has expired; otherwise it returns
\* the keys that have an entry with a live-until ledger below
\* current_ledger + extend_to, sorted, as the read-only footprint, an empty
\* read-write footprint, and one rent change per such key with equal sizes,
\* the live-until ledger of the snapshot as the old one and
\* current_ledger + extend_to as the new one.
C19_ExtendTtlResources ==
    (call.fn = "simulate_extend_ttl_op_resources" /\ IsSome(returned)) =>
        ExtendTtlResult(Unwrap(returned))

\* C19, for calls whose current_ledger + extend_to is a u32.
C19_ExtendTtlResourcesOfSumInU32 ==
    (/\ call.fn = "simulate_extend_ttl_op_resources"
     /\ IsSome(returned)
     /\ call.extend_to <= U32_MAX - SequenceNumber) =>
        ExtendTtlResult(Unwrap(returned))

\* Two keys given in descending order have been extended, and a third kind
\* of call has skipped a key.
C19_Witness ==
    /\ call.fn = "simulate_extend_ttl_op_resources"
    /\ IsSome(returned)
    /\ call.extend_to <= U32_MAX - SequenceNumber
    /\ Unwrap(returned).tag = "Ok"
    /\ Len(call.keys_to_extend) = 2
    /\ call.keys_to_extend[1] > call.keys_to_extend[2]
    /\ Unwrap(returned).val.resources.footprint.read_only
            = <<call.keys_to_extend[2], call.keys_to_extend[1]>>

\* Key k of a call of simulate_restore_op_resources has an entry whose
\* live-until ledger is below the current ledger.
Archived(k) ==
    /\ IsSome(call.snapshot_source[k])
    /\ Unwrap(Unwrap(call.snapshot_source[k]).live_until) < SequenceNumber

\* The number of keys up to position i that are archived.
ArchivedUpTo(i) ==
    Cardinality({j \in 1..i : Archived(call.keys_to_restore[j])})

\* The saturating sum of the encoded sizes of the archived keys up to
\* position i.
RECURSIVE ArchivedBytesUpTo(_)
ArchivedBytesUpTo(i) ==
    IF i = 0 THEN 0
    ELSE IF Archived(call.keys_to_restore[i])
    THEN saturating_add_u32(
            ArchivedBytesUpTo(i - 1),
            Len(WriteXdrEntry(Unwrap(call.snapshot_source[call.keys_to_restore[i]]).entry)))
    ELSE ArchivedBytesUpTo(i - 1)

\* C20: simulate_restore_op_resources fails when a key is not persistent or
\* has no entry; otherwise it returns the keys whose live-until ledger is
\* below the current ledger, sorted, as the read-write footprint, an empty
\* read-only footprint, the saturating sum of their encoded sizes as
\* disk_read_bytes and as write_bytes, and one rent change per such key
\* with old size 0, old live-until ledger 0, the rent size of the entry as
\* the new size and the minimum persistent live-until ledger as the new
\* live-until ledger.
C20_RestoreResources ==
    (call.fn = "simulate_restore_op_resources" /\ IsSome(returned)) =>
        LET keys == call.keys_to_restore
            res == Unwrap(returned)
        IN IF \E i \in DOMAIN keys :
                \/ get_key_durability(keys[i]) # Some("Persistent")
                \/ ~IsSome(call.snapshot_source[keys[i]])
           THEN res.tag = "Err"
           ELSE /\ res.tag = "Ok"
                /\ LET read_write == res.val.resources.footprint.read_write
                       rent_changes == res.val.rent_changes
                   IN /\ res.val.resources.footprint.read_only = <<>>
                      /\ Len(read_write) = ArchivedUpTo(Len(keys))
                      /\ \A i \in 1..(Len(read_write) - 1) :
                            read_write[i] <= read_write[i + 1]
                      /\ \A k \in SimulationKeys :
                            Cardinality({i \in DOMAIN read_write : read_write[i] = k})
                                = Cardinality({i \in DOMAIN keys :
                                                keys[i] = k /\ Archived(k)})
                      /\ res.val.resources.disk_read_bytes = ArchivedBytesUpTo(Len(keys))
                      /\ res.val.resources.write_bytes = ArchivedBytesUpTo(Len(keys))
                      /\ Len(rent_changes) = ArchivedUpTo(Len(keys))
                      /\ \A i \in DOMAIN keys :
                            Archived(keys[i]) =>
                                LET r == rent_changes[ArchivedUpTo(i)]
                                    entry == Unwrap(call.snapshot_source[keys[i]]).entry
                                IN /\ r.old_size_bytes = 0
                                   /\ r.old_live_until_ledger = 0
                                   /\ r.new_size_bytes
                                        = entry_size_for_rent(entry, Len(WriteXdrEntry(entry)))
                                   /\ r.new_live_until_ledger
                                        = SequenceNumber + MinPersistentTtl - 1
                                   /\ r.is_persistent

\* A contract code entry and a persistent contract data entry, both
\* archived and given in descending order, have been restored: the rent
\* size of the code entry is larger than the bytes read for it.
C20_Witness ==
    /\ call.fn = "simulate_restore_op_resources"
    /\ IsSome(returned)
    /\ Unwrap(returned).tag = "Ok"
    /\ Len(call.keys_to_restore) = 2
    /\ call.keys_to_restore[1] > call.keys_to_restore[2]
    /\ KeyType(call.keys_to_restore[2]) = "ContractCode"
    /\ Unwrap(returned).val.resources.footprint.read_write
            = <<call.keys_to_restore[2], call.keys_to_restore[1]>>
    /\ Unwrap(returned).val.resources.write_bytes > 0
    /\ Unwrap(returned).val.rent_changes[2].new_size_bytes
            > Unwrap(returned).val.resources.write_bytes

\* ceil(value * price / per), the product saturating in i64.
CeilFee(value, price, per) == div_ceil(saturating_mul(value, price), per)

\* transaction_size_bytes + 300, at most u32::MAX.
SizeWithResult(size) ==
    IF I64Cmp(I64ExactAdd(size, I64OfInt(300)), I64OfU32Max) > 0 THEN I64OfU32Max
    ELSE I64ExactAdd(size, I64OfInt(300))

\* The part of the non-refundable fee that the resource named field pays
\* for, at resources r and prices c.
NonRefundableShare(field, r, c) ==
    CASE field = "instructions" ->
            CeilFee(r.instructions, c.fee_per_instruction_increment, I64OfInt(10000))
      [] field = "disk_read_entries" ->
            saturating_mul(r.disk_read_entries, c.fee_per_disk_read_entry)
      [] field = "write_entries" ->
            saturating_mul(r.write_entries, c.fee_per_write_entry)
      [] field = "disk_read_bytes" ->
            CeilFee(r.disk_read_bytes, c.fee_per_disk_read_1kb, I64OfInt(1024))
      [] field = "write_bytes" ->
            CeilFee(r.write_bytes, c.fee_per_write_1kb, I64OfInt(1024))
      [] field = "transaction_size_bytes" ->
            saturating_add(
                CeilFee(SizeWithResult(r.transaction_size_bytes),
                        c.fee_per_historical_1kb, I64OfInt(1024)),
                CeilFee(r.transaction_size_bytes, c.fee_per_transaction_size_1kb,
                        I64OfInt(1024)))
      [] field = "contract_events_size_bytes" -> I64OfInt(0)

ResourceFields ==
    {"instructions", "disk_read_entries", "write_entries", "disk_read_bytes",
     "write_bytes", "transaction_size_bytes", "contract_events_size_bytes"}

\* The saturating sum of the shares of the fields in the sequence fields.
RECURSIVE SumOfShares(_, _, _)
SumOfShares(fields, r, c) ==
    IF fields = <<>> THEN I64OfInt(0)
    ELSE saturating_add(SumOfShares(SubSeq(fields, 1, Len(fields) - 1), r, c),
                        NonRefundableShare(fields[Len(fields)], r, c))

\* C21: compute_transaction_resource_fee returns the events fee
\* ceil(contract_events_size_bytes * fee_per_contract_event_1kb / 1024) as
\* the refundable fee and, as the non-refundable fee, the sum of the
\* instruction fee, the entry fees, the read and write byte fees, the
\* historical fee on transaction_size_bytes + 300 and the transaction size
\* fee, each rounded up, in saturating arithmetic; the results are those
\* the tests expect, and changing one resource changes only what that
\* resource pays for.
C21_ResourceFeeComponents ==
    (call.fn = "compute_transaction_resource_fee" /\ IsSome(returned)) =>
        LET r == call.tx_resources
            c == call.fee_config
            out == Unwrap(returned)
        IN /\ out[2] = CeilFee(r.contract_events_size_bytes,
                                c.fee_per_contract_event_1kb, I64OfInt(1024))
           /\ out[1] = SumOfShares(<<"instructions", "disk_read_entries", "write_entries",
                                     "disk_read_bytes", "write_bytes",
                                     "transaction_size_bytes">>, r, c)
           /\ \A i \in DOMAIN ResourceFeeTests :
                (r = ResourceFeeTests[i].tx_resources /\ c = ResourceFeeTests[i].fee_config)
                    => out = ResourceFeeTests[i].expected
           /\ I64Cmp(out[1], I64_MAX) < 0 =>
                \A field \in ResourceFields : \A v \in 0..(MaxResource + 1) :
                    LET r2 == [r EXCEPT ![field] = I64OfInt(v)]
                        out2 == compute_transaction_resource_fee(r2, c)
                    IN /\ I64ExactAdd(out2[1], NonRefundableShare(field, r, c))
                            = I64ExactAdd(out[1], NonRefundableShare(field, r2, c))
                       /\ field # "contract_events_size_bytes" => out2[2] = out[2]
                       /\ field = "contract_events_size_bytes" => out2[1] = out[1]

\* The fee of the test with different resources and prices has been
\* computed: every component is charged and rounded.
C21_Witness ==
    /\ call.fn = "compute_transaction_resource_fee"
    /\ IsSome(returned)
    /\ call.tx_resources.instructions = I64OfInt(10123456)
    /\ call.tx_resources.transaction_size_bytes = I64OfInt(35721)
    /\ Unwrap(returned) = <<I64OfInt(1222089), I64OfInt(62824)>>

\* C22: the fee arithmetic saturates: with every resource u32::MAX and
\* every price i64::MAX the result is (i64::MAX, 9_007_199_254_740_992);
\* with transaction_size_bytes = u32::MAX the historical fee is the fee of
\* u32::MAX bytes, the 300 base bytes being absorbed; and no fee of
\* non-negative resources and prices is negative or above i64::MAX.
C22_FeeArithmeticSaturates ==
    (call.fn = "compute_transaction_resource_fee" /\ IsSome(returned)) =>
        LET r == call.tx_resources
            c == call.fee_config
            out == Unwrap(returned)
        IN /\ ((\A f \in ResourceFields : r[f] = I64OfU32Max)
                /\ (\A p \in DOMAIN c : c[p] = I64_MAX))
                    => out = <<I64_MAX, I64OfGroups(<<9, 7, 199, 254, 740, 992>>)>>
           /\ r.transaction_size_bytes = I64OfU32Max =>
                out[1] = saturating_add(
                    SumOfShares(<<"instructions", "disk_read_entries", "write_entries",
                                  "disk_read_bytes", "write_bytes">>, r, c),
                    saturating_add(
                        CeilFee(I64OfU32Max, c.fee_per_historical_1kb, I64OfInt(1024)),
                        CeilFee(I64OfU32Max, c.fee_per_transaction_size_1kb,
                                I64OfInt(1024))))
           /\ \A i \in 1..2 :
                /\ I64Cmp(out[i], I64OfInt(0)) >= 0
                /\ I64Cmp(out[i], I64_MAX) <= 0

\* The fee of u32::MAX of every resource at the price i64::MAX has been
\* computed.
C22_Witness ==
    /\ call.fn = "compute_transaction_resource_fee"
    /\ IsSome(returned)
    /\ \A f \in ResourceFields : call.tx_resources[f] = I64OfU32Max
    /\ call.fee_config.fee_per_historical_1kb = I64_MAX
    /\ Unwrap(returned)[1] = I64_MAX

\* The rent of size bytes for ledgers ledgers at the rate of change e:
\* ceil(size * fee_per_rent_1kb * ledgers / (1024 * denominator)).
RentComponent(e, size, ledgers, cfg) ==
    IF ledgers <= 0 \/ size <= 0 THEN I64OfInt(0)
    ELSE div_ceil(
            saturating_mul(saturating_mul(I64OfInt(size), cfg.fee_per_rent_1kb),
                           I64OfInt(ledgers)),
            saturating_mul(I64OfInt(1024),
                           IF e.is_persistent THEN cfg.persistent_rent_rate_denominator
                           ELSE cfg.temporary_rent_rate_denominator))

\* The rent fee of change e with the size increase charged for
\* prepaid_ledgers ledgers.
RentOfChange(e, prepaid_ledgers, cfg, current_ledger) ==
    LET extension == RentComponent(e, e.new_size_bytes,
            e.new_live_until_ledger - Max(e.old_live_until_ledger, current_ledger - 1), cfg)
        increase == RentComponent(e, e.new_size_bytes - e.old_size_bytes,
                                  prepaid_ledgers, cfg)
        sum == saturating_add(extension, increase)
    IN IF e.is_code_entry THEN I64Div(sum, I64OfInt(3)) ELSE sum

\* The fee for writing the TTL entries of the extended changes.
TtlWriteFee(changes, cfg) ==
    LET entries == Cardinality({i \in DOMAIN changes :
            changes[i].old_live_until_ledger < changes[i].new_live_until_ledger})
    IN saturating_add(
            saturating_mul(I64OfInt(entries), cfg.fee_per_write_entry),
            div_ceil(saturating_mul(I64OfInt(entries * 48), cfg.fee_per_write_1kb),
                     I64OfInt(1024)))

\* The sum of the rent fees of the changes, where a change is charged its
\* size increase up to its new live-until ledger if toNew, and up to its old
\* one if not.
RECURSIVE SumOfRents(_, _, _, _)
SumOfRents(changes, cfg, current_ledger, toNew) ==
    IF changes = <<>> THEN I64OfInt(0)
    ELSE LET e == changes[Len(changes)]
         IN saturating_add(
                SumOfRents(SubSeq(changes, 1, Len(changes) - 1), cfg, current_ledger, toNew),
                RentOfChange(e,
                    (IF toNew THEN e.new_live_until_ledger ELSE e.old_live_until_ledger)
                        - current_ledger + 1,
                    cfg, current_ledger))

\* C23 as stated: the size increase is charged over
\* new_live_until - current_ledger + 1 ledgers, and the results are those
\* the rent fee tests expect.
C23_SizeIncreaseToNewLiveUntil ==
    (call.fn = "compute_rent_fee" /\ IsSome(returned)) =>
        /\ Unwrap(returned) = saturating_add(
                SumOfRents(call.changed_entries, call.fee_config,
                           call.current_ledger_seq, TRUE),
                TtlWriteFee(call.changed_entries, call.fee_config))
        /\ \A i \in DOMAIN RentFeeTests :
                (/\ call.changed_entries = RentFeeTests[i].changed_entries
                 /\ call.fee_config = RentFeeTests[i].fee_config
                 /\ call.current_ledger_seq = RentFeeTests[i].current_ledger_seq)
                    => Unwrap(returned) = RentFeeTests[i].expected

\* C23: compute_rent_fee charges, per change, the rent of the new size over
\* max(0, new_live_until - max(old_live_until, current_ledger - 1)) ledgers
\* plus, when the size grew, the rent of the size increase over
\* old_live_until - current_ledger + 1 ledgers, at the persistent or
\* temporary rate and divided by 3 for a code entry, and adds the TTL write
\* fee of the extended changes; the results are those the rent fee tests
\* expect.
C23_SizeIncreaseToOldLiveUntil ==
    (call.fn = "compute_rent_fee" /\ IsSome(returned)) =>
        /\ Unwrap(returned) = saturating_add(
                SumOfRents(call.changed_entries, call.fee_config,
                           call.current_ledger_seq, FALSE),
                TtlWriteFee(call.changed_entries, call.fee_config))
        /\ \A i \in DOMAIN RentFeeTests :
                (/\ call.changed_entries = RentFeeTests[i].changed_entries
                 /\ call.fee_config = RentFeeTests[i].fee_config
                 /\ call.current_ledger_seq = RentFeeTests[i].current_ledger_seq)
                    => Unwrap(returned) = RentFeeTests[i].expected

\* The rent fee of a code entry that is extended and grows has been
\* computed: the value of test_rent_extend_with_size_change_and_extend.
C23_Witness ==
    /\ call.fn = "compute_rent_fee"
    /\ IsSome(returned)
    /\ Len(call.changed_entries) = 1
    /\ call.changed_entries[1].is_code_entry
    /\ call.changed_entries[1].new_size_bytes > call.changed_entries[1].old_size_bytes
    /\ call.changed_entries[1].new_live_until_ledger
            > call.changed_entries[1].old_live_until_ledger
    /\ call.changed_entries[1].old_live_until_ledger > call.current_ledger_seq
    /\ Unwrap(returned) = I64OfInt(895217)

\* The rent write fee of the call's configuration at state size size.
RentWriteFeeAt(size) == compute_rent_write_fee_per_1kb(I64OfInt(size), call.fee_config)

\* The rent write fee is never below the minimum, is the larger of the high
\* fee and the minimum at the target, and is what the tests expect.
RentWriteFeeFloor ==
    LET fee == Unwrap(returned)
        cfg == call.fee_config
    IN /\ I64Cmp(fee, MINIMUM_RENT_WRITE_FEE_PER_1KB) >= 0
       /\ call.soroban_state_size_bytes = cfg.state_target_size_bytes =>
            fee = (IF I64Cmp(cfg.rent_fee_1kb_state_size_high,
                             MINIMUM_RENT_WRITE_FEE_PER_1KB) >= 0
                   THEN cfg.rent_fee_1kb_state_size_high
                   ELSE MINIMUM_RENT_WRITE_FEE_PER_1KB)
       /\ \A i \in DOMAIN RentWriteFeeTests :
            (/\ call.soroban_state_size_bytes = RentWriteFeeTests[i].soroban_state_size_bytes
             /\ cfg = RentWriteFeeTests[i].fee_config)
                => fee = RentWriteFeeTests[i].expected

\* The fee of no larger state of up to MaxStateSize + 1 bytes is below the
\* fee returned.
NoLargerStateIsCheaper ==
    \A size \in 0..(MaxStateSize + 1) :
        I64Cmp(I64OfInt(size), call.soroban_state_size_bytes) > 0 =>
            I64Cmp(RentWriteFeeAt(size), Unwrap(returned)) >= 0

\* C24 as stated: compute_rent_write_fee_per_1kb never returns less than the
\* minimum, returns max(fee_high, minimum) at the target, and is
\* non-decreasing in the state size, for every configuration.
C24_FlooredAndNonDecreasing ==
    (call.fn = "compute_rent_write_fee_per_1kb" /\ IsSome(returned)) =>
        /\ RentWriteFeeFloor
        /\ NoLargerStateIsCheaper

\* C24: compute_rent_write_fee_per_1kb never returns less than the minimum
\* and returns max(fee_high, minimum) at the target, for every
\* configuration; it is non-decreasing in the state size when the high fee is
\* not below the low fee.
C24_FlooredAndNonDecreasingForHighAboveLow ==
    (call.fn = "compute_rent_write_fee_per_1kb" /\ IsSome(returned)) =>
        /\ RentWriteFeeFloor
        /\ I64Cmp(call.fee_config.rent_fee_1kb_state_size_high,
                   call.fee_config.rent_fee_1kb_state_size_low) >= 0
                => NoLargerStateIsCheaper

\* The fee of a state below the target has been computed, with a negative
\* low fee: it is above the minimum and below the fee at the target.
C24_Witness ==
    /\ call.fn = "compute_rent_write_fee_per_1kb"
    /\ IsSome(returned)
    /\ call.fee_config.rent_fee_1kb_state_size_low.sign = -1
    /\ I64Cmp(call.soroban_state_size_bytes, call.fee_config.state_target_size_bytes) < 0
    /\ I64Cmp(call.soroban_state_size_bytes, I64OfInt(MaxStateSize)) < 0
    /\ I64Cmp(Unwrap(returned), MINIMUM_RENT_WRITE_FEE_PER_1KB) > 0
    /\ I64Cmp(Unwrap(returned), call.fee_config.rent_fee_1kb_state_size_high) < 0

\* The storage map invoke_host_function has just built from the supplied
\* entries.
StorageMapBuilt == mode = "enforcing" /\ pc = "host_setup"

\* C25: in a storage map built from the supplied entries, an entry carries a
\* live-until ledger if and only if it is a ContractData or ContractCode
\* entry.
C25_LiveUntilIffContractEntry ==
    StorageMapBuilt =>
        \A k \in DOMAIN storage_map :
            IsSome(storage_map[k]) =>
                (IsSome(Unwrap(storage_map[k]).live_until)
                    <=> KeyType(k) \in {"ContractData", "ContractCode"})

\* The supplied entries with the key k and a TTL record.
SuppliedWithTtl(k) ==
    {i \in DOMAIN encoded_ledger_entries :
        /\ i \in DOMAIN encoded_ttl_entries
        /\ ledger_entry_to_ledger_key(ReadXdrEntry(encoded_ledger_entries[i])) = k
        /\ encoded_ttl_entries[i] # <<>>}

\* The supplied ContractData and ContractCode entries with an empty TTL slot.
SuppliedContractEntriesWithoutTtl ==
    {i \in DOMAIN encoded_ledger_entries :
        /\ i \in DOMAIN encoded_ttl_entries
        /\ KeyType(ledger_entry_to_ledger_key(ReadXdrEntry(encoded_ledger_entries[i])))
                \in {"ContractData", "ContractCode"}
        /\ encoded_ttl_entries[i] = <<>>}

\* C25, as the code has it: in a storage map built from the supplied entries
\* an entry carries a live-until ledger if and only if it was supplied with
\* a TTL record, whatever its type; every ContractData and ContractCode
\* entry carries one, and no storage map is built when such an entry is
\* supplied with an empty TTL slot: the build fails with
\* Storage/InternalError.
C25_LiveUntilIffTtlSupplied ==
    /\ StorageMapBuilt =>
        /\ SuppliedContractEntriesWithoutTtl = {}
        /\ \A k \in DOMAIN storage_map :
            IsSome(storage_map[k]) =>
                /\ IsSome(Unwrap(storage_map[k]).live_until) <=> SuppliedWithTtl(k) # {}
                /\ KeyType(k) \in {"ContractData", "ContractCode"}
                        => IsSome(Unwrap(storage_map[k]).live_until)
    /\ (/\ mode = "enforcing"
        /\ pc = "storage_map"
        /\ Len(encoded_ledger_entries) = Len(encoded_ttl_entries)
        /\ SuppliedContractEntriesWithoutTtl # {})
            => build_storage_map_from_xdr_ledger_entries(
                    recording_mode_feature, footprint, encoded_ledger_entries,
                    encoded_ttl_entries, FALSE).err = StorageInternal

\* A storage map has been built that holds an account entry with the
\* live-until ledger of its TTL record and a contract data entry.
C25_Witness ==
    /\ StorageMapBuilt
    /\ \E k \in DOMAIN storage_map :
        /\ IsSome(storage_map[k])
        /\ KeyType(k) = "Account"
        /\ IsSome(Unwrap(storage_map[k]).live_until)
    /\ \E k \in DOMAIN storage_map :
        /\ IsSome(storage_map[k])
        /\ KeyType(k) = "ContractData"

\* The keys of the supplied entries.
SuppliedKeys ==
    {ledger_entry_to_ledger_key(ReadXdrEntry(encoded_ledger_entries[i])) :
        i \in DOMAIN encoded_ledger_entries}

\* C26: after build_storage_map_from_xdr_ledger_entries succeeded in
\* enforcing mode the keys of the storage map are the keys of the footprint:
\* the key of every supplied entry is in the footprint and holds an entry,
\* every other key of the footprint holds None; the build fails with
\* Storage/InternalError, and no storage map is built, when the key of a
\* supplied entry is not in the footprint or when the numbers of entries and
\* of TTL slots differ.
C26_StorageMapKeysAreFootprintKeys ==
    /\ StorageMapBuilt =>
        /\ DOMAIN storage_map = DOMAIN footprint
        /\ SuppliedKeys \subseteq DOMAIN footprint
        /\ Len(encoded_ledger_entries) = Len(encoded_ttl_entries)
        /\ \A k \in DOMAIN footprint : IsSome(storage_map[k]) <=> k \in SuppliedKeys
    /\ (/\ mode = "enforcing"
        /\ pc = "storage_map"
        /\ \/ Len(encoded_ledger_entries) # Len(encoded_ttl_entries)
           \/ ~(SuppliedKeys \subseteq DOMAIN footprint))
            => build_storage_map_from_xdr_ledger_entries(
                    recording_mode_feature, footprint, encoded_ledger_entries,
                    encoded_ttl_entries, FALSE).err = StorageInternal
    /\ (/\ mode = "enforcing"
        /\ \/ Len(encoded_ledger_entries) # Len(encoded_ttl_entries)
           \/ ~(SuppliedKeys \subseteq {k \in LedgerKeys :
                    \E i \in DOMAIN resources.footprint.read_only :
                        resources.footprint.read_only[i] = k}
                  \cup {k \in LedgerKeys :
                    \E i \in DOMAIN resources.footprint.read_write :
                        resources.footprint.read_write[i] = k}))
            => /\ storage_map = EmptyMap
               /\ init_ttl_map = EmptyMap
               /\ pc \in {"start", "footprint", "storage_map", "done"}
               /\ pc = "done" => ret \in {Err(StorageInternal), Err(BudgetExceeded)}

\* A storage map has been built for a footprint with a key that has a
\* supplied entry and a key that has none.
C26_Witness ==
    /\ StorageMapBuilt
    /\ \E k \in DOMAIN footprint : storage_map[k] = None
    /\ \E k \in DOMAIN footprint : IsSome(storage_map[k])

\* A temporary entry of the ledger state whose live-until ledger is below
\* the current ledger.
ExpiredTemporary(k) ==
    SnapshotExpired(ledger_snapshot, k) /\ get_key_durability(k) = Some("Temporary")

\* The invocation of the recording run left an entry under key k.
LeftEntry(k) == k \in DOMAIN storage_map /\ IsSome(storage_map[k])

PastFinish ==
    \/ mode = "enforcing" /\ pc \in {"encode_result", "changes", "encode_events"}
    \/ mode = "recording" /\ pc \in {"changes", "resources"}
    \/ ReturnedOk

C29_ShadowFailureNeverSurfaces ==
    (mode = "recording" /\ shadow_budget_exceeded) =>
        /\ pc \in {"resources", "done"}
        /\ invoke_result = Unwrap(recording_result.vm).invoke_result
        /\ invoke_result.tag = "Ok"
        /\ resources.footprint = storage_footprint_to_ledger_footprint(footprint)
        /\ contract_events = FilterContractEvents(events)
        /\ pc = "done" =>
            /\ ret = Ok(<<>>)
            /\ budget_exceeded_at = "none"
            /\ resources.instructions =
                    2 + Cardinality(DOMAIN footprint) + Cardinality(DOMAIN storage_map)
                      + Len(FilterContractEvents(events))

\* A recording run has returned a record, with a contract event, after a
\* charge under the shadow budget failed before the record of a
\* footprint-only key was made.
C29_Witness ==
    /\ mode = "recording"
    /\ shadow_budget_exceeded
    /\ ReturnedOk
    /\ \E k \in DOMAIN footprint :
        /\ k \notin DOMAIN storage_map
        /\ \A i \in ChangeIndices : ChangeKey(i) # k
    /\ contract_events # <<>>

\* Payload p has both an address and a nonce, or neither.
WellFormedPayload(p) == IsSome(p.address) <=> IsSome(p.nonce)

\* C30: with recording auth the entries returned are one per recorded
\* payload, in the order of the payloads, each with the invocation of its
\* payload: Address credentials with the address and the nonce of the
\* payload and a Void signature, where the host holds the entry with a
\* signature of 512 zero bytes, for a payload with both; SourceAccount
\* credentials for a payload with neither; and the call fails with
\* Auth/InternalError when a payload has exactly one of the two.  With
\* enforcing auth the entries returned are the entries supplied.
C30_RecordingAuthOutput ==
    (call.fn = "recording_output_auth" /\ IsSome(returned)) =>
        LET out == Unwrap(returned)
            recorded == call.recorded_auth
        IN IF call.auth_mode.type = "Enforcing"
           THEN out.err = "" /\ out.auth = call.auth_mode.auth_entries
           ELSE IF \E i \in DOMAIN recorded : ~WellFormedPayload(recorded[i])
           THEN out.err = "Auth/InternalError"
           ELSE /\ out.err = ""
                /\ Len(out.auth) = Len(recorded)
                /\ Len(out.host_auth) = Len(recorded)
                /\ \A i \in DOMAIN recorded :
                    /\ out.auth[i].root_invocation = recorded[i].invocation
                    /\ IF IsSome(recorded[i].address)
                       THEN /\ out.auth[i].credentials.type = "Address"
                            /\ out.auth[i].credentials.address = Unwrap(recorded[i].address)
                            /\ out.auth[i].credentials.nonce = Unwrap(recorded[i].nonce)
                            /\ out.auth[i].credentials.signature.type = "Void"
                            /\ out.host_auth[i].credentials.signature =
                                    [type |-> "Bytes", bytes |-> [j \in 1..512 |-> 0]]
                            /\ out.host_auth[i].root_invocation = recorded[i].invocation
                       ELSE out.auth[i].credentials = [type |-> "SourceAccount"]

\* The entries of two recorded payloads have been returned: Address
\* credentials first, SourceAccount credentials second.
C30_Witness ==
    /\ call.fn = "recording_output_auth"
    /\ IsSome(returned)
    /\ call.auth_mode.type = "Recording"
    /\ Unwrap(returned).err = ""
    /\ Len(Unwrap(returned).auth) = 2
    /\ Unwrap(returned).auth[1].credentials.type = "Address"
    /\ Unwrap(returned).auth[2].credentials.type = "SourceAccount"
    /\ Unwrap(returned).auth[1].root_invocation # Unwrap(returned).auth[2].root_invocation
====
